---- MODULE Spec2Model ----
(***************************************************************************)
(* Model of the rebalancing back-test engine (src/backtest/engine.py) and  *)
(* of the one-tick engine (src/hl-vix-etf/core).                           *)
(*                                                                         *)
(* Amounts are integers in the engine's fixed-point unit (USD * E6).       *)
(* Python's arbitrary-precision integers are modelled by TLC's 32-bit      *)
(* integers, so the amounts of the model are small and the fixed-point     *)
(* scale E6 is reduced (see E6).  The floats of the back-test are         *)
(* modelled by exact rationals (numerator over denominator); int() is      *)
(* truncation toward zero (PyInt) and // is floor division (\div).  Where  *)
(* the rounding of a float or of a Decimal matters (the functions of the   *)
(* one-tick engine called on their own), every operation is rounded half   *)
(* to even to FloatBits binary, or DecimalDigits decimal, significant      *)
(* digits, as the program rounds to 53 bits and to 28 digits.              *)
(***************************************************************************)
EXTENDS Integers, Sequences, FiniteSets, TLC

VARIABLES
    gpc,        \* guard calls: "start" | "guarded" | "reapplied"
    gin,        \* guard calls: the arguments of the last call
    gout,       \* guard calls: (targets, final) returned by the last call
    gprev,      \* guard calls: (targets, final) returned by the call before
    bpc,        \* run: "idle" | "load" | "run" | "rejected" | "done", or the
                \* exception that ended it: "raised" (UnboundLocalError) |
                \* "zero_division" | "metrics_zero_division"
    strat,      \* run: the strategy definition
    cfg,        \* run: the Config
    symbols,    \* run: the symbols of the price list
    feed,       \* run: the family the price list is drawn from
    start_nav,  \* run: int(start_nav_usd * E6)
    nav,        \* backtest: nav
    pos,        \* backtest: pos
    last_px,    \* backtest: last_px
    last_rebal_ts,  \* backtest: last_rebal_ts (NoTs for None)
    ret_hist,   \* backtest: ret_hist
    spread_hist,    \* backtest: spread_hist[(symA, symB)]
    pair_state, \* backtest: pair_state
    ts,         \* backtest: the timestamp of the last step
    steps,      \* backtest: the number of steps taken
    out,        \* backtest: the row written by the last step
    nav_series, \* backtest: nav_series, in fixed-point units
    ev,         \* what the last step did (its inputs, its pair evaluation)
    obs,        \* what the price list has been so far, and the number of
                \* evaluations since the pair regime was entered (-1: not in
                \* an entered regime)
    tpc,        \* ticks: "idle" | "ready" | "halted" (an exception escaped)
    tcfg,       \* ticks: cfg, with dry_run
    vault,      \* ticks: the Vault (cash, positions_usd, last_px)
    index,      \* ticks: the IndexStore's calculator
    apos,       \* ticks: the positions the adapter keeps
    trow,       \* ticks: the row the last engine_tick returned
    tslot,      \* ticks: the number of calls so far
    tin,        \* ticks: what the adapter did during the last call
    ppc,        \* pair calls: "idle" | "start" | "called"
    pin,        \* pair calls: the arguments of the call
    pout,       \* pair calls: what the call returned and left behind
    cpc,        \* core calls: "idle" | "ready" | "done"
    ccall,      \* core calls: the last call, its arguments and its result
    cvault,     \* core calls: the Vault (cash, total_shares)
    cstore,     \* core calls: the IndexStore (calc) and the file at its path
    ccount      \* core calls: the number of calls so far

gvars == <<gpc, gin, gout, gprev>>
bvars == <<bpc, strat, cfg, symbols, feed, start_nav, nav, pos, last_px,
           last_rebal_ts, ret_hist, spread_hist, pair_state, ts, steps, out,
           nav_series, ev, obs>>
vars == <<gpc, gin, gout, gprev, bpc, strat, cfg, symbols, feed, start_nav,
          nav, pos, last_px, last_rebal_ts, ret_hist, spread_hist, pair_state,
          ts, steps, out, nav_series, ev, obs,
          tpc, tcfg, vault, index, apos, trow, tslot, tin,
          ppc, pin, pout,
          cpc, ccall, cvault, cstore, ccount>>
tvars == <<tpc, tcfg, vault, index, apos, trow, tslot, tin>>
pvars == <<ppc, pin, pout>>
cvars == <<cpc, ccall, cvault, cstore, ccount>>

----------------------------------------------------------------------------
(* Arithmetic of the source language                                       *)

Abs(x) == IF x < 0 THEN -x ELSE x
Max(a, b) == IF a >= b THEN a ELSE b
Min(a, b) == IF a <= b THEN a ELSE b

\* int(num / den) for den > 0: truncation toward zero.
PyInt(num, den) == IF num >= 0 THEN num \div den ELSE -((-num) \div den)

\* dict.get(k, default)
Get(d, k, default) == IF k \in DOMAIN d THEN d[k] ELSE default

RECURSIVE SumOver(_, _)
SumOver(f, S) ==
    IF S = {} THEN 0
    ELSE LET k == CHOOSE k \in S : TRUE IN f[k] + SumOver(f, S \ {k})

\* sum(d.values())
SumValues(d) == SumOver(d, DOMAIN d)
\* sum(abs(v) for v in d.values())
SumAbsValues(d) == SumOver([k \in DOMAIN d |-> Abs(d[k])], DOMAIN d)

----------------------------------------------------------------------------
(* Constants of the program                                                *)

\* The fixed-point scale.  The program uses 10**6; the model keeps a scale
\* greater than 1 (so that an amount in USD and an amount in fixed-point
\* units differ) and small enough for products of two amounts to stay
\* within TLC's integers.
E6 == 2

\* Fallback per-symbol cap (USD) when neither the symbol nor "default" is
\* a key of perSymbolMaxUSD.
FallbackCapUSD == 250000

Symbols == {"BTC", "ETH", "SOL"}

----------------------------------------------------------------------------
(* Guard pipeline                                                          *)

\* clamp_target(sym, target, cfg)
clamp_target(sym, target, cfg_) ==
    LET cap_usd == Get(cfg_.perSymbolMaxUSD, sym,
                       Get(cfg_.perSymbolMaxUSD, "default", FallbackCapUSD))
        cap == cap_usd * E6
    IN  IF target > cap THEN cap
        ELSE IF target < -cap THEN -cap
        ELSE target

\* apply_guards, stage 1: per-symbol cap
CapStage(targets, cfg_) ==
    [s \in DOMAIN targets |-> clamp_target(s, targets[s], cfg_)]

\* A variant of the net-delta guard that removes the whole sum from every
\* target:
CenterStageWholeSum(targets, cfg_) ==
    LET intended == SumValues(targets)
    IN  IF Abs(intended) > cfg_.maxNetDeltaUSD * E6
        THEN [s \in DOMAIN targets |-> targets[s] - intended]
        ELSE targets

\* apply_guards, stage 2: net delta guard (centering)
CenterStage(targets, cfg_) ==
    LET intended == SumValues(targets)
        abs_intended == Abs(intended)
        N == Max(Cardinality(DOMAIN targets), 1)
        adj == intended \div N
    IN  IF abs_intended > cfg_.maxNetDeltaUSD * E6
        THEN [s \in DOMAIN targets |-> targets[s] - adj]
        ELSE targets

\* Mutant of ScaledDelta: the excess turnover is subtracted from the delta
\* instead of the delta being scaled by the ratio.
ScaledDeltaAdditive(delta, scale_num, scale_den) ==
    delta - (scale_den - scale_num)

\* apply_guards, stage 3: the scaled delta of one symbol
ScaledDelta(delta, scale_num, scale_den) == (delta * scale_num) \div scale_den

\* A variant of the turnover cap that scales to the allowed maximum whenever
\* there is turnover, also below the cap:
TurnoverStageAlwaysScaled(nav_, current, targets, cfg_) ==
    LET deltas == [s \in DOMAIN targets |-> targets[s] - Get(current, s, 0)]
        gross == SumAbsValues(deltas)
        gmax == (nav_ * cfg_.turnoverCapBps) \div 10000
        active == gross > 0
        scale_num == IF active THEN gmax ELSE 1
        scale_den == IF active THEN gross ELSE 1
    IN  [s \in DOMAIN targets |->
            Get(current, s, 0) + ScaledDelta(deltas[s], scale_num, scale_den)]

\* apply_guards, stage 3: turnover cap (proportional scaling)
TurnoverStage(nav_, current, targets, cfg_) ==
    LET deltas == [s \in DOMAIN targets |-> targets[s] - Get(current, s, 0)]
        gross == SumAbsValues(deltas)
        gmax == (nav_ * cfg_.turnoverCapBps) \div 10000
        active == gross > gmax /\ gross > 0
        scale_num == IF active THEN gmax ELSE 1
        scale_den == IF active THEN gross ELSE 1
    IN  [s \in DOMAIN targets |->
            Get(current, s, 0) + ScaledDelta(deltas[s], scale_num, scale_den)]

\* apply_guards(nav, current, targets, cfg) -> (targets, final)
apply_guards(nav_, current, targets, cfg_) ==
    LET guarded == CenterStage(CapStage(targets, cfg_), cfg_)
    IN  [targets |-> guarded,
         final |-> TurnoverStage(nav_, current, guarded, cfg_)]

\* Mutant of AddBucket: targets[sym] = ... instead of targets[sym] += ...
RECURSIVE AddBucketOverwrite(_, _, _, _)
AddBucketOverwrite(targets, entries, bucket, sign) ==
    IF entries = <<>> THEN targets
    ELSE LET e == Head(entries)
             amt == (bucket * e.bps) \div 10000
             t2 == [s \in DOMAIN targets \cup {e.symbol} |->
                       IF s = e.symbol THEN sign * amt ELSE targets[s]]
         IN  AddBucketOverwrite(t2, Tail(entries), bucket, sign)

\* guard_and_targets: targets[sym] += sign * ((bucket * bps) // 10000) for
\* each entry of one side, in order
RECURSIVE AddBucket(_, _, _, _)
AddBucket(targets, entries, bucket, sign) ==
    IF entries = <<>> THEN targets
    ELSE LET e == Head(entries)
             amt == (bucket * e.bps) \div 10000
             t2 == [s \in DOMAIN targets \cup {e.symbol} |->
                       IF s = e.symbol THEN Get(targets, s, 0) + sign * amt
                       ELSE targets[s]]
         IN  AddBucket(t2, Tail(entries), bucket, sign)

EmptyDict == [s \in {} |-> 0]

\* A variant of the raw targets that shorts every symbol of the price list
\* the buckets do not name:
RawTargetsEverySymbol(nav_, strat_, cfg_) ==
    LET long_bucket == PyInt(nav_ * cfg_.leverage.num, cfg_.leverage.den)
        short_bucket == PyInt(nav_ * cfg_.leverage.num, cfg_.leverage.den)
        named == AddBucket(AddBucket(EmptyDict, strat_.longs, long_bucket, 1),
                           strat_.shorts, short_bucket, -1)
    IN  [s \in DOMAIN named \cup symbols |-> Get(named, s, -short_bucket)]

\* guard_and_targets, step 1: raw targets from buckets
RawTargets(nav_, strat_, cfg_) ==
    LET long_bucket == PyInt(nav_ * cfg_.leverage.num, cfg_.leverage.den)
        short_bucket == PyInt(nav_ * cfg_.leverage.num, cfg_.leverage.den)
    IN  AddBucket(AddBucket(EmptyDict, strat_.longs, long_bucket, 1),
                  strat_.shorts, short_bucket, -1)

\* guard_and_targets(nav, current, strat, cfg) -> (targets, final)
guard_and_targets(nav_, current, strat_, cfg_) ==
    apply_guards(nav_, current, RawTargets(nav_, strat_, cfg_), cfg_)

----------------------------------------------------------------------------
(* Configuration and strategy definitions                                  *)

\* A float given as an exact ratio.
Ratio(n, d) == [num |-> n, den |-> d]

\* Config(): the defaults of the dataclass
Config ==
    [turnoverCapBps |-> 1000,
     maxNetDeltaUSD |-> 50000,
     perSymbolMaxUSD |-> ("default" :> 250000),
     cooldownSeconds |-> 3600,
     feeBps |-> 5,
     slipBps |-> 10,
     leverage |-> Ratio(1, 1),
     rebalanceThresholdBps |-> 0]

\* A strategy definition as load_strategy returns it.  type is NoType when
\* the definition has no 'type' key.
NoType == "<absent>"
Entry(sym, b) == [symbol |-> sym, bps |-> b]

\* params of a pair strategy: the values params.get(...) falls back to
PairParams ==
    [lookback |-> 24,
     k_in |-> Ratio(2, 1),
     k_out |-> Ratio(1, 1),
     minHoldSteps |-> 0,
     neutralDriftThresholdBps |-> 0,
     regimeStopBps |-> 50,
     regimeTPBps |-> 100,
     maxSkewBps |-> 100,
     betaMin |-> Ratio(1, 5),
     betaMax |-> Ratio(5, 1),
     useBetaHedge |-> FALSE]

FixedBucket(t, ls, ss) ==
    [type |-> t, longs |-> ls, shorts |-> ss, symbols |-> <<>>,
     params |-> PairParams]
PairBreakout(syms, ps) ==
    [type |-> "pair_neutral_breakout", longs |-> <<>>, shorts |-> <<>>,
     symbols |-> syms, params |-> ps]

----------------------------------------------------------------------------
(* Calls of the guard pipeline on bounded arguments                        *)

MaxAmt == 3      \* raw targets are drawn from -MaxAmt..MaxAmt
MaxPos == 1      \* current positions are drawn from -MaxPos..MaxPos
MaxNav == 4      \* NAV is drawn from -1..MaxNav
ExampleNavUSD == 1000   \* start NAV of the two-symbol example, in model USD

GuardSyms == {"BTC", "ETH"}

\* raw target maps as compute_targets_pair_breakout or a caller may pass
RawMaps == UNION {[D -> -MaxAmt..MaxAmt] : D \in SUBSET GuardSyms}

Currents ==
    {c \in [Symbols -> -MaxPos..MaxPos] : \A s \in Symbols \ GuardSyms : c[s] = 0}

Navs == -1..MaxNav

CapMaps ==
    {"default" :> 0,
     "default" :> 1,
     ("BTC" :> 1) @@ ("default" :> 250000),
     ("BTC" :> 2) @@ ("ETH" :> 1),
     "BTC" :> 1}

GuardCfgs ==
    {[Config EXCEPT !.turnoverCapBps = t, !.maxNetDeltaUSD = m,
                    !.perSymbolMaxUSD = c] :
        t \in {0, 5000, 10000}, m \in {0, 1, 50000}, c \in CapMaps}

Leverages == {Ratio(1, 2), Ratio(1, 1), Ratio(3, 2)}

ExampleStrat ==
    FixedBucket(NoType, <<Entry("BTC", 10000)>>, <<Entry("ETH", 10000)>>)

BucketStrats ==
    {ExampleStrat,
     FixedBucket(NoType, <<Entry("BTC", 5000), Entry("ETH", 5000)>>,
                         <<Entry("ETH", 10000)>>),
     FixedBucket(NoType, <<Entry("BTC", 3333), Entry("BTC", 6667)>>,
                         <<Entry("ETH", 2500), Entry("BTC", 7500)>>),
     FixedBucket("fixed", <<Entry("BTC", 5000)>>, <<Entry("ETH", 2500)>>)}

NoStrat == FixedBucket(NoType, <<>>, <<>>)
NoResult == [targets |-> EmptyDict, final |-> EmptyDict]

GInit ==
    /\ gpc = "start"
    /\ gin = [via |-> "none", nav |-> 0, current |-> [s \in Symbols |-> 0],
              targets |-> EmptyDict, cfg |-> Config, strat |-> NoStrat]
    /\ gout = NoResult
    /\ gprev = NoResult

\* apply_guards(nav, current, targets, cfg) on a raw target map
CallApplyGuards ==
    /\ gpc = "start"
    /\ \E nav_ \in Navs, cur \in Currents, raw \in RawMaps, cfg_ \in GuardCfgs :
        /\ gin' = [via |-> "apply_guards", nav |-> nav_, current |-> cur,
                   targets |-> raw, cfg |-> cfg_, strat |-> NoStrat]
        /\ gout' = apply_guards(nav_, cur, raw, cfg_)
    /\ gpc' = "guarded"
    /\ gprev' = gprev
    /\ UNCHANGED <<bvars, tvars, pvars, cvars>>

\* guard_and_targets(nav, current, strat, cfg) on a fixed-bucket strategy
CallGuardAndTargets ==
    /\ gpc = "start"
    /\ \E nav_ \in Navs \cup {ExampleNavUSD * E6}, cur \in Currents,
          strat_ \in BucketStrats, lev \in Leverages,
          cfg_ \in GuardCfgs \cup {Config, [Config EXCEPT !.turnoverCapBps = 10000]} :
        LET c == [cfg_ EXCEPT !.leverage = lev] IN
        /\ gin' = [via |-> "guard_and_targets", nav |-> nav_, current |-> cur,
                   targets |-> RawTargets(nav_, strat_, c), cfg |-> c,
                   strat |-> strat_]
        /\ gout' = guard_and_targets(nav_, cur, strat_, c)
    /\ gpc' = "guarded"
    /\ gprev' = gprev
    /\ UNCHANGED <<bvars, tvars, pvars, cvars>>

\* apply_guards again, on the target map the last call returned
Reapply ==
    /\ gpc = "guarded"
    /\ gin' = [gin EXCEPT !.via = "apply_guards", !.targets = gout.targets]
    /\ gout' = apply_guards(gin.nav, gin.current, gout.targets, gin.cfg)
    /\ gprev' = gout
    /\ gpc' = "reapplied"
    /\ UNCHANGED <<bvars, tvars, pvars, cvars>>

GNext == CallApplyGuards \/ CallGuardAndTargets \/ Reapply

----------------------------------------------------------------------------
(* Properties of the guard pipeline (checked under SpecGuards)             *)

Sign(x) == IF x > 0 THEN 1 ELSE IF x < 0 THEN -1 ELSE 0

Called == gpc \in {"guarded", "reapplied"}
TargetSyms == DOMAIN gout.targets
RawDelta(s) == gout.targets[s] - gin.current[s]
FinalDelta(s) == gout.final[s] - gin.current[s]
GrossTurnover == SumOver([s \in TargetSyms |-> Abs(RawDelta(s))], TargetSyms)
ExecutedTurnover == SumOver([s \in TargetSyms |-> Abs(FinalDelta(s))], TargetSyms)
AllowedMax == (gin.nav * gin.cfg.turnoverCapBps) \div 10000
ScalingActive == Called /\ GrossTurnover > AllowedMax
CapOf(cfg_, s) ==
    E6 * (IF s \in DOMAIN cfg_.perSymbolMaxUSD THEN cfg_.perSymbolMaxUSD[s]
          ELSE IF "default" \in DOMAIN cfg_.perSymbolMaxUSD
               THEN cfg_.perSymbolMaxUSD["default"]
          ELSE FallbackCapUSD)

\* C1: apply_guards is idempotent: applied to the target map it returned
\* (same NAV, config and current positions) it returns the same target map
\* and the same final-position map.
C1_Idempotent == gpc = "reapplied" => gout = gprev

C3_WithinCap ==
    Called => \A s \in TargetSyms : Abs(gout.targets[s]) <= CapOf(gin.cfg, s)

\* C4: the executed turnover never exceeds max(0, floor(NAV *
\* turnoverCapBps / 10000)).
C4_TurnoverWithinCap == Called => ExecutedTurnover <= Max(0, AllowedMax)

\* The raw target the claim gives for symbol s: the sum over the longs
\* entries of s of floor(B * bps / 10000) minus the same sum over the
\* shorts entries of s, with B = int(NAV * leverage).
SideSum(entries, s, B) ==
    SumOver([i \in 1..Len(entries) |->
                IF entries[i].symbol = s THEN (B * entries[i].bps) \div 10000
                ELSE 0],
            1..Len(entries))
ClaimedRaw(strat_, s, B) == SideSum(strat_.longs, s, B) - SideSum(strat_.shorts, s, B)
NamedSyms(strat_) ==
    {strat_.longs[i].symbol : i \in 1..Len(strat_.longs)}
        \cup {strat_.shorts[i].symbol : i \in 1..Len(strat_.shorts)}
GuardsNotBinding ==
    /\ \A s \in DOMAIN gin.targets : Abs(gin.targets[s]) <= CapOf(gin.cfg, s)
    /\ Abs(SumValues(gin.targets)) <= gin.cfg.maxNetDeltaUSD * E6
IsExample ==
    /\ gpc = "guarded"
    /\ gin.via = "guard_and_targets"
    /\ gin.strat = ExampleStrat
    /\ gin.nav = ExampleNavUSD * E6
    /\ gin.cfg.leverage = Ratio(1, 1)
    /\ GuardsNotBinding

\* C10: the raw target of each symbol of a fixed-bucket strategy is the sum
\* over its longs entries of floor(B * bps / 10000) minus the sum over its
\* shorts entries, B = int(NAV * leverage); in the two-symbol example
\* (longs BTC 10000, shorts ETH 10000, leverage 1, guards not binding) the
\* target map is exactly {BTC: +NAV, ETH: -NAV}.
C10_RawTargets ==
    /\ (gpc = "guarded" /\ gin.via = "guard_and_targets") =>
          LET B == PyInt(gin.nav * gin.cfg.leverage.num, gin.cfg.leverage.den)
          IN  /\ DOMAIN gin.targets = NamedSyms(gin.strat)
              /\ \A s \in DOMAIN gin.targets :
                    gin.targets[s] = ClaimedRaw(gin.strat, s, B)
    /\ IsExample =>
          gout.targets = ("BTC" :> ExampleNavUSD * E6) @@ ("ETH" :> -(ExampleNavUSD * E6))

\* C10 witness: the two-symbol example with its exact targets, reached.
C10_Witness ==
    /\ IsExample
    /\ gout.targets["BTC"] = ExampleNavUSD * E6
    /\ gout.targets["ETH"] = -(ExampleNavUSD * E6)

----------------------------------------------------------------------------
(* Pair-neutral breakout strategy                                          *)
(*                                                                         *)
(* Prices are powers of two, so that a price ratio, a return and a         *)
(* position times a return are exact as floats, and the log spread         *)
(* ln(pA / pB) is an integer multiple of ln 2: a spread sample is stored   *)
(* as log2(pA) - log2(pB), which leaves every z-score unchanged.  A return *)
(* is stored as its numerator over RetDen.  A z-score is kept as its sign  *)
(* and its square num/den, which decides every comparison exactly.         *)

MaxExp == 1
PxSet == {2 ^ e : e \in 0..MaxExp}
Log2(p) == CHOOSE e \in 0..MaxExp : 2 ^ e = p
RetDen == 2 ^ MaxExp

\* The warm-up length of the z-score: max(lookback // 2, 8)
MinSamples == 8

RECURSIVE GCD(_, _)
GCD(a, b) == IF b = 0 THEN a ELSE GCD(b, a % b)

RECURSIVE SeqSum(_)
SeqSum(q) == IF q = <<>> THEN 0 ELSE Head(q) + SeqSum(Tail(q))
SeqSumSq(q) == SeqSum([i \in 1..Len(q) |-> q[i] * q[i]])
SeqDot(p, q) == SeqSum([i \in 1..Len(q) |-> p[i] * q[i]])

\* hist[-lookback:]
LastN(hist, lookback) ==
    IF lookback = 0 THEN hist
    ELSE SubSeq(hist, Max(1, Len(hist) - lookback + 1), Len(hist))

\* x <= y for ratios with positive denominators
RLe(x, y) == x.num * y.den <= y.num * x.den
RMax(x, y) == IF RLe(x, y) THEN y ELSE x
RMin(x, y) == IF RLe(x, y) THEN x ELSE y

\* _safe_beta(ret_a, ret_b, beta_min, beta_max)
safe_beta(ret_a, ret_b, beta_min, beta_max) ==
    IF Len(ret_a) # Len(ret_b) \/ Len(ret_a) < 2 THEN Ratio(1, 1)
    ELSE LET n == Len(ret_a)
             \* cov and var_b, both times n * (n - 1) * RetDen^2
             cov == n * SeqDot(ret_a, ret_b) - SeqSum(ret_a) * SeqSum(ret_b)
             var_b == n * SeqSumSq(ret_b) - SeqSum(ret_b) * SeqSum(ret_b)
         IN  IF var_b <= 0 THEN Ratio(1, 1)
             ELSE RMin(RMax(Ratio(cov, var_b), beta_min), beta_max)

\* The z-score of the newest sample s within use_hist:
\* z = (s - m) / std, or 0 during warm-up and when std = 0.
ZeroZ == [sgn |-> 0, num |-> 0, den |-> 1]
ZScore(use_hist, s, lookback) ==
    LET n == Len(use_hist)
        S == SeqSum(use_hist)
        Q == SeqSumSq(use_hist)
        dev == n * s - S                 \* (s - m) * n
        varn == n * Q - S * S            \* var * n * max(1, n - 1)
    IN  IF n >= Max(lookback \div 2, MinSamples) /\ varn > 0 /\ dev # 0
        THEN [sgn |-> IF dev > 0 THEN 1 ELSE -1,
              num |-> dev * dev * Max(1, n - 1),
              den |-> n * varn]
        ELSE ZeroZ

\* z >= k, z <= -k, abs(z) <= k, abs(z) > k for a ratio k
ZSqGe(z, k) == z.num * k.den * k.den >= k.num * k.num * z.den
ZSqLe(z, k) == z.num * k.den * k.den <= k.num * k.num * z.den
ZGe(z, k) ==
    IF k.num > 0 THEN z.sgn = 1 /\ ZSqGe(z, k)
    ELSE IF k.num = 0 THEN z.sgn >= 0
    ELSE z.sgn >= 0 \/ ZSqLe(z, k)
ZLeNeg(z, k) == ZGe([z EXCEPT !.sgn = -z.sgn], k)
ZAbsLe(z, k) == k.num >= 0 /\ ZSqLe(z, k)
ZAbsGt(z, k) == ~ZAbsLe(z, k)

\* The 'neutral' branch of the regime logic (entry).  A variant that enters
\* long as soon as z >= k_out:
NeutralBranchEarly(z, nav_, hold0, entry0, params) ==
    IF params.k_in.num > 0 /\ ZGe(z, params.k_out)
    THEN [regime |-> "long", hold |-> 0, has_entry |-> TRUE, entry_nav_e6 |-> nav_]
    ELSE IF params.k_in.num > 0 /\ ZLeNeg(z, params.k_in)
    THEN [regime |-> "short", hold |-> 0, has_entry |-> TRUE, entry_nav_e6 |-> nav_]
    ELSE [regime |-> "neutral", hold |-> hold0, has_entry |-> TRUE,
          entry_nav_e6 |-> entry0]

\* A variant that keeps the entry NAV it already has:
NeutralBranchStaleEntry(z, nav_, hold0, entry0, params) ==
    IF params.k_in.num > 0 /\ ZGe(z, params.k_in)
    THEN [regime |-> "long", hold |-> 0, has_entry |-> TRUE, entry_nav_e6 |-> entry0]
    ELSE IF params.k_in.num > 0 /\ ZLeNeg(z, params.k_in)
    THEN [regime |-> "short", hold |-> 0, has_entry |-> TRUE, entry_nav_e6 |-> nav_]
    ELSE [regime |-> "neutral", hold |-> hold0, has_entry |-> TRUE,
          entry_nav_e6 |-> entry0]

\* if regime == 'neutral': enter long at z >= k_in, short at z <= -k_in
\* (k_in > 0), with hold = 0 and entry_nav_e6 = nav; otherwise no change.
NeutralBranch(z, nav_, hold0, entry0, params) ==
    IF params.k_in.num > 0 /\ ZGe(z, params.k_in)
    THEN [regime |-> "long", hold |-> 0, has_entry |-> TRUE, entry_nav_e6 |-> nav_]
    ELSE IF params.k_in.num > 0 /\ ZLeNeg(z, params.k_in)
    THEN [regime |-> "short", hold |-> 0, has_entry |-> TRUE, entry_nav_e6 |-> nav_]
    ELSE [regime |-> "neutral", hold |-> hold0, has_entry |-> TRUE,
          entry_nav_e6 |-> entry0]

\* The 'long' / 'short' branch after its stop-loss / take-profit block.  A
\* variant that reverses the regime on an opposite breakout:
HeldBranchReversing(regime, regime1, hold1, z, entry0, params) ==
    IF regime = "long" /\ params.k_in.num > 0 /\ ZLeNeg(z, params.k_in)
    THEN [regime |-> "short", hold |-> 0, has_entry |-> TRUE, entry_nav_e6 |-> entry0]
    ELSE IF regime = "short" /\ params.k_in.num > 0 /\ ZGe(z, params.k_in)
    THEN [regime |-> "long", hold |-> 0, has_entry |-> TRUE, entry_nav_e6 |-> entry0]
    ELSE IF hold1 < params.minHoldSteps
    THEN [regime |-> regime1, hold |-> hold1 + 1, has_entry |-> TRUE,
          entry_nav_e6 |-> entry0]
    ELSE IF ZAbsLe(z, params.k_out)
    THEN [regime |-> "neutral", hold |-> 0, has_entry |-> TRUE,
          entry_nav_e6 |-> entry0]
    ELSE [regime |-> regime1, hold |-> hold1 + 1, has_entry |-> TRUE,
          entry_nav_e6 |-> entry0]

\* A variant without hysteresis, which leaves as soon as abs(z) <= k_in:
HeldBranchExitAtKin(regime, regime1, hold1, z, entry0, params) ==
    IF hold1 < params.minHoldSteps
    THEN [regime |-> regime1, hold |-> hold1 + 1, has_entry |-> TRUE,
          entry_nav_e6 |-> entry0]
    ELSE IF ZAbsLe(z, params.k_in)
    THEN [regime |-> "neutral", hold |-> 0, has_entry |-> TRUE,
          entry_nav_e6 |-> entry0]
    ELSE [regime |-> regime1, hold |-> hold1 + 1, has_entry |-> TRUE,
          entry_nav_e6 |-> entry0]

\* A variant without the minimum hold:
HeldBranchNoLock(regime, regime1, hold1, z, entry0, params) ==
    IF ZAbsLe(z, params.k_out)
    THEN [regime |-> "neutral", hold |-> 0, has_entry |-> TRUE,
          entry_nav_e6 |-> entry0]
    ELSE [regime |-> regime1, hold |-> hold1 + 1, has_entry |-> TRUE,
          entry_nav_e6 |-> entry0]

\* elif regime == 'long' / 'short', after the stop-loss / take-profit
\* block left new_regime = regime1 and hold = hold1: count the hold up
\* below min_hold, otherwise leave to neutral when abs(z) <= k_out.
HeldBranch(regime, regime1, hold1, z, entry0, params) ==
    IF hold1 < params.minHoldSteps
    THEN [regime |-> regime1, hold |-> hold1 + 1, has_entry |-> TRUE,
          entry_nav_e6 |-> entry0]
    ELSE IF ZAbsLe(z, params.k_out)
    THEN [regime |-> "neutral", hold |-> 0, has_entry |-> TRUE,
          entry_nav_e6 |-> entry0]
    ELSE [regime |-> regime1, hold |-> hold1 + 1, has_entry |-> TRUE,
          entry_nav_e6 |-> entry0]

\* Regime logic with hysteresis and min-hold: the pair state after one
\* evaluation with z-score z at NAV nav.
RegimeStep(state, z, nav_, params) ==
    LET regime == state.regime
        hold0 == state.hold
        entry0 == IF state.has_entry THEN state.entry_nav_e6 ELSE nav_
        nav_delta_bps == ((nav_ - entry0) * 10000) \div entry0
        stopped ==
            /\ entry0 > 0
            /\ \/ params.regimeStopBps > 0 /\ nav_delta_bps <= -params.regimeStopBps
               \/ params.regimeTPBps > 0 /\ nav_delta_bps >= params.regimeTPBps
        \* new_regime and hold after the stop-loss / take-profit block
        regime1 == IF stopped THEN "neutral" ELSE regime
        hold1 == IF stopped THEN 0 ELSE hold0
    IN  IF regime = "neutral"
        THEN NeutralBranch(z, nav_, hold0, entry0, params)
        ELSE \* 'long' and 'short' run the same code
             HeldBranch(regime, regime1, hold1, z, entry0, params)

\* int((nav * (max_skew_bps / 10000.0)) * scale * E6) with
\* scale = min((abs(z) - k_in) / k_in, 1.0), for abs(z) > k_in > 0.
SkewAmount(nav_, max_skew_bps, z, k_in) ==
    LET W == nav_ * max_skew_bps * E6
        g == GCD(Abs(W), 10000)
        a == Abs(W) \div g
        b == 10000 \div g
        double == [num |-> 2 * k_in.num, den |-> k_in.den]
        \* n <= (a / b) * (abs(z) / k_in - 1)
        Fits(n) ==
            LET lhs == (n * b + a) * k_in.num
                rhs == a * k_in.den
            IN  lhs * lhs * z.den <= rhs * rhs * z.num
        mag == IF W = 0 THEN 0
               ELSE IF ZSqGe(z, double) THEN a \div b
               ELSE CHOOSE n \in 0..(a \div b) : Fits(n) /\ ~Fits(n + 1)
    IN  IF W >= 0 THEN mag ELSE -mag

\* Base neutral gross (long A, short B) with ratio L/S = beta:
\* total_gross_e6 = int(2 * nav * leverage), s_usd_e6 = int(total / (ratio + 1)),
\* l_usd_e6 = total - s_usd_e6
BaseGross(nav_, cfg_, beta) ==
    LET total_gross_e6 == PyInt(2 * nav_ * cfg_.leverage.num, cfg_.leverage.den)
        ratio == RMax(beta, Ratio(1, 1000000))
        s0 == PyInt(total_gross_e6 * ratio.den, ratio.num + ratio.den)
    IN  [l |-> total_gross_e6 - s0, s |-> s0]

\* skew: non-zero in 'long' / 'short' when abs(z) > k_in > 0, negated in 'short'
Skew(nav_, params, z, new_regime) ==
    LET skew0 == IF /\ new_regime \in {"long", "short"}
                    /\ params.k_in.num > 0
                    /\ ZAbsGt(z, params.k_in)
                 THEN SkewAmount(nav_, params.maxSkewBps, z, params.k_in)
                 ELSE 0
    IN  IF new_regime = "short" THEN -skew0 ELSE skew0

\* Apply skew by shifting long up and short down; targets = {symA: l, symB: -s}
SkewedTargets(symA, symB, base, skew) ==
    LET delta == skew \div 2
        l_usd_e6 == IF skew # 0 THEN Max(0, base.l + delta) ELSE base.l
        s_usd_e6 == IF skew # 0 THEN Max(0, base.s - delta) ELSE base.s
    IN  IF symA = symB THEN (symA :> -s_usd_e6)
        ELSE (symA :> l_usd_e6) @@ (symB :> -s_usd_e6)

\* The return value and the state left behind, given the hedge ratio beta,
\* the spread history hist1 after the append, the z-score z and the pair
\* state st1 after the regime logic
PairResult(nav_, symA, symB, params, cfg_, beta, hist1, z, st1) ==
    [targets |-> SkewedTargets(symA, symB, BaseGross(nav_, cfg_, beta),
                               Skew(nav_, params, z, st1.regime)),
     meta |-> [regime |-> st1.regime,
               neutralSkipBps |-> params.neutralDriftThresholdBps],
     state |-> st1, spread_hist |-> hist1,
     evaluated |-> TRUE, z |-> z]

\* The regime logic on the z-score z
PairDecide(nav_, symA, symB, params, cfg_, state, beta, hist1, z) ==
    PairResult(nav_, symA, symB, params, cfg_, beta, hist1, z,
               RegimeStep(state, z, nav_, params))

\* The z-score of the newest sample of hist1 within hist1[-lookback:]
PairEvaluate(nav_, symA, symB, params, cfg_, state, beta, hist1) ==
    PairDecide(nav_, symA, symB, params, cfg_, state, beta, hist1,
               ZScore(LastN(hist1, params.lookback), hist1[Len(hist1)],
                      params.lookback))

\* compute_targets_pair_breakout(nav, last_px, ret_hist, symA, symB, params,
\* cfg, state, spread_hist): the raw targets, the meta record, the pair
\* state and the spread history it leaves, and the z-score it used.
compute_targets_pair_breakout(nav_, px, rets, symA, symB, params, cfg_, state, hist) ==
    IF symA \notin DOMAIN px \/ symB \notin DOMAIN px
    THEN [targets |-> EmptyDict,
          meta |-> [regime |-> state.regime,
                    neutralSkipBps |-> params.neutralDriftThresholdBps],
          state |-> state, spread_hist |-> hist,
          evaluated |-> FALSE, z |-> ZeroZ]
    ELSE PairEvaluate(nav_, symA, symB, params, cfg_, state,
            IF params.useBetaHedge
            THEN safe_beta(LastN(Get(rets, symA, <<>>), params.lookback),
                           LastN(Get(rets, symB, <<>>), params.lookback),
                           params.betaMin, params.betaMax)
            ELSE Ratio(1, 1),
            Append(hist, Log2(px[symA]) - Log2(px[symB])))

----------------------------------------------------------------------------
(* load_strategy and backtest                                              *)

NoTs == -1     \* last_rebal_ts = None

\* load_strategy: sum_bps(arr)
sum_bps(arr) == SeqSum([i \in 1..Len(arr) |-> arr[i].bps])

\* load_strategy: the definition is returned (TRUE) or ValueError is raised
load_strategy_accepts(s) ==
    IF s.type = NoType
    THEN ~(sum_bps(s.longs) # 10000 \/ sum_bps(s.shorts) # 10000)
    ELSE TRUE

\* sorted(set(sym for _, sym, _, _ in prices))
SymbolOrder == <<"BTC", "ETH", "SOL">>
RECURSIVE SortedFrom(_, _)
SortedFrom(S, i) ==
    IF i > Len(SymbolOrder) THEN <<>>
    ELSE (IF SymbolOrder[i] \in S THEN <<SymbolOrder[i]>> ELSE <<>>)
            \o SortedFrom(S, i + 1)
Sorted(S) == SortedFrom(S, 1)

NoRow == [timestamp |-> NoTs, nav |-> 0, gross_turnover_e6 |-> 0,
          fee_e6 |-> 0, funding_e6 |-> 0, note |-> "<none>"]
NoState == [regime |-> "neutral", hold |-> 0, has_entry |-> FALSE,
            entry_nav_e6 |-> 0]
NoEval == [row |-> EmptyDict, funding |-> EmptyDict, due |-> FALSE,
           before |-> NoState, pos0 |-> [s \in Symbols |-> 0],
           evaluated |-> FALSE, z |-> ZeroZ, nav |-> 0, targets |-> EmptyDict,
           final |-> EmptyDict]

\* backtest, step 1: some symbol of the row has a previous price of 0, so
\* ret = (row[s] / last_px[s]) - 1.0 divides by zero
ZeroPrevPrice(row) ==
    \E s \in symbols : s \in DOMAIN row /\ s \in DOMAIN last_px /\ last_px[s] = 0

\* A variant of the price P&L that credits the whole price ratio:
PricePnlRatio(row) ==
    LET S == {s \in symbols : s \in DOMAIN row /\ s \in DOMAIN last_px}
    IN  SumOver([s \in S |-> PyInt(pos[s] * row[s], last_px[s])], S)

\* backtest, step 1: pnl += int(pos.get(s, 0) * ret) over the symbols with
\* an old and a new price
PricePnl(row) ==
    LET S == {s \in symbols : s \in DOMAIN row /\ s \in DOMAIN last_px}
    IN  SumOver([s \in S |-> PyInt(pos[s] * (row[s] - last_px[s]), last_px[s])], S)

\* backtest, step 1: ret_hist[s].append(ret)
RetHistAfter(row) ==
    [s \in DOMAIN ret_hist |->
        IF s \in DOMAIN row /\ s \in DOMAIN last_px
        THEN Append(ret_hist[s], ((row[s] - last_px[s]) * RetDen) \div last_px[s])
        ELSE ret_hist[s]]

\* A variant of the funding P&L that credits longs at a positive rate:
FundingPnlCredit(funding) ==
    LET S == {s \in DOMAIN funding : pos[s] # 0 /\ funding[s] # 0}
    IN  PyInt(SumOver([s \in S |-> pos[s] * funding[s]], S), 10000)

\* backtest, step 1.5: funding_usd += -(p / E6) * (f_bps / 10000.0) for the
\* symbols of the timestamp's funding map, then int(funding_usd * E6)
FundingPnl(funding) ==
    LET S == {s \in DOMAIN funding : pos[s] # 0 /\ funding[s] # 0}
    IN  PyInt(SumOver([s \in S |-> -(pos[s] * funding[s])], S), 10000)

\* A variant of the cooldown test that lets every step rebalance:
CooldownElapsedAlways(t) == TRUE

\* if last_rebal_ts is None or (ts - last_rebal_ts) >= cfg.cooldownSeconds
CooldownElapsed(t) ==
    last_rebal_ts = NoTs \/ (t - last_rebal_ts) >= cfg.cooldownSeconds

\* A variant of the cooldown clock that a skipped rebalance moves too:
ClockAfterSkipMoves(t, skipped) == t

\* last_rebal_ts after the rebalance block: a skip leaves it alone (both
\* skips `continue` before it is assigned), fills set it to ts
ClockAfter(t, skipped) == IF skipped THEN last_rebal_ts ELSE t

\* meta_info = {} and an untouched pair state: the rebalance of a
\* fixed-bucket strategy
NoPairResult ==
    [targets |-> EmptyDict,
     meta |-> [regime |-> "<none>", neutralSkipBps |-> 0],
     state |-> pair_state, spread_hist |-> spread_hist,
     evaluated |-> FALSE, z |-> ZeroZ]

\* A variant of the execution cost that charges the fee but not the slippage:
RebalanceFeeNoSlip(gross_e6) == PyInt(gross_e6 * cfg.feeBps, 10000)

\* costs_bps = (fee_bps + slip_bps) / 10000.0,
\* fee_usd = (gross_e6 / E6) * costs_bps, int(fee_usd * E6)
RebalanceFee(gross_e6) == PyInt(gross_e6 * (cfg.feeBps + cfg.slipBps), 10000)

\* A variant of the two skips that tests the rebalance threshold first:
SettleThresholdFirst(t, nav2, g, pr, gross_e6) ==
    LET nbps == pr.meta.neutralSkipBps
        skip_neutral ==
            /\ pr.meta.regime = "neutral" /\ nav2 > 0
            /\ nbps > 0
            /\ (gross_e6 * 10000) \div Max(nav2, 1) < nbps
        skip_threshold ==
            /\ cfg.rebalanceThresholdBps > 0 /\ nav2 > 0
            /\ (gross_e6 * 10000) \div Max(nav2, 1) < cfg.rebalanceThresholdBps
        fee_e6 == RebalanceFee(gross_e6)
        skipped == skip_neutral \/ skip_threshold
    IN  [raised |-> FALSE,
         nav |-> IF skipped THEN nav2 ELSE nav2 - fee_e6,
         pos |-> IF skipped THEN pos
                 ELSE [s \in Symbols |-> Get(g.final, s, pos[s])],
         last_rebal_ts |-> ClockAfter(t, skipped),
         pair_state |-> pr.state,
         spread_hist |-> pr.spread_hist,
         gross_e6 |-> gross_e6,
         fee_e6 |-> IF skipped THEN 0 ELSE fee_e6,
         note |-> IF skip_threshold THEN "skip_threshold"
                  ELSE IF skip_neutral THEN "skip_neutral_drift"
                  ELSE "rebalance",
         evaluated |-> pr.evaluated,
         z |-> pr.z,
         targets |-> g.targets, final |-> g.final]

\* A variant that leaves the pair state alone when the step is skipped:
SettleSkipKeepsState(t, nav2, g, pr, gross_e6) ==
    LET nbps == pr.meta.neutralSkipBps
        skip_neutral ==
            /\ pr.meta.regime = "neutral" /\ nav2 > 0
            /\ nbps > 0
            /\ (gross_e6 * 10000) \div Max(nav2, 1) < nbps
        skip_threshold ==
            /\ cfg.rebalanceThresholdBps > 0 /\ nav2 > 0
            /\ (gross_e6 * 10000) \div Max(nav2, 1) < cfg.rebalanceThresholdBps
        fee_e6 == RebalanceFee(gross_e6)
        skipped == skip_neutral \/ skip_threshold
    IN  [raised |-> FALSE,
         nav |-> IF skipped THEN nav2 ELSE nav2 - fee_e6,
         pos |-> IF skipped THEN pos
                 ELSE [s \in Symbols |-> Get(g.final, s, pos[s])],
         last_rebal_ts |-> ClockAfter(t, skipped),
         pair_state |-> IF skipped THEN pair_state ELSE pr.state,
         spread_hist |-> pr.spread_hist,
         gross_e6 |-> gross_e6,
         fee_e6 |-> IF skipped THEN 0 ELSE fee_e6,
         note |-> IF skip_neutral THEN "skip_neutral_drift"
                  ELSE IF skip_threshold THEN "skip_threshold"
                  ELSE "rebalance",
         evaluated |-> pr.evaluated,
         z |-> pr.z,
         targets |-> g.targets, final |-> g.final]

\* backtest, step 2 after deltas and gross_e6: the neutral-drift skip, the
\* threshold skip, then fees and fills.  g is the (targets, final) of the
\* guards, pr the result of the pair strategy.
Settle(t, nav2, g, pr, gross_e6) ==
    LET nbps == pr.meta.neutralSkipBps
        skip_neutral ==
            /\ pr.meta.regime = "neutral" /\ nav2 > 0
            /\ nbps > 0
            /\ (gross_e6 * 10000) \div Max(nav2, 1) < nbps
        skip_threshold ==
            /\ cfg.rebalanceThresholdBps > 0 /\ nav2 > 0
            /\ (gross_e6 * 10000) \div Max(nav2, 1) < cfg.rebalanceThresholdBps
        fee_e6 == RebalanceFee(gross_e6)
        skipped == skip_neutral \/ skip_threshold
    IN  [raised |-> FALSE,
         nav |-> IF skipped THEN nav2 ELSE nav2 - fee_e6,
         pos |-> IF skipped THEN pos
                 ELSE [s \in Symbols |-> Get(g.final, s, pos[s])],
         last_rebal_ts |-> ClockAfter(t, skipped),
         pair_state |-> pr.state,
         spread_hist |-> pr.spread_hist,
         gross_e6 |-> gross_e6,
         fee_e6 |-> IF skipped THEN 0 ELSE fee_e6,
         note |-> IF skip_neutral THEN "skip_neutral_drift"
                  ELSE IF skip_threshold THEN "skip_threshold"
                  ELSE "rebalance",
         evaluated |-> pr.evaluated,
         z |-> pr.z,
         targets |-> g.targets, final |-> g.final]

\* deltas = {s: final[s] - pos[s]}, gross_e6 = sum(abs(v))
Trade(t, nav2, g, pr) ==
    Settle(t, nav2, g, pr,
           SumAbsValues([s \in DOMAIN g.final |-> g.final[s] - pos[s]]))

\* targets, final = apply_guards(nav, pos, raw_targets, cfg)
GuardPair(t, nav2, pr) ==
    Trade(t, nav2, apply_guards(nav2, pos, pr.targets, cfg), pr)

\* backtest, step 2 (the cooldown has elapsed): targets and guards, the two
\* skip thresholds, fees and fills
Rebalance(t, nav2, px1, rets1) ==
    LET isPair == strat.type = "pair_neutral_breakout"
        syms == IF strat.symbols # <<>> THEN strat.symbols ELSE Sorted(symbols)
    IN  IF isPair /\ Len(syms) < 2
        THEN \* targets = {} and 'final' is never assigned
             [raised |-> TRUE, nav |-> nav2, pos |-> pos,
              last_rebal_ts |-> last_rebal_ts,
              pair_state |-> pair_state, spread_hist |-> spread_hist,
              gross_e6 |-> 0, fee_e6 |-> 0, note |-> "", evaluated |-> FALSE,
              z |-> ZeroZ, targets |-> EmptyDict, final |-> EmptyDict]
        ELSE IF isPair
        THEN GuardPair(t, nav2,
                 compute_targets_pair_breakout(nav2, px1, rets1, syms[1], syms[2],
                     strat.params, cfg, pair_state, spread_hist))
        ELSE Trade(t, nav2, guard_and_targets(nav2, pos, strat, cfg), NoPairResult)

\* backtest: the end of one iteration of `for ts in timeline`, given the
\* funding payment funding_e6, the NAV nav2 after returns and funding, the
\* returns rets1 and prices px1 after the row, whether the cooldown has
\* elapsed (due) and the outcome r of the rebalance block
FinishStep(t, row, funding, funding_e6, nav2, rets1, px1, due, r) ==
    IF due /\ r.raised
        THEN /\ bpc' = "raised"
             /\ UNCHANGED <<nav, pos, last_px, last_rebal_ts, ret_hist,
                            spread_hist, pair_state, ts, steps, out, nav_series,
                            ev, obs>>
        ELSE /\ bpc' = bpc
             /\ nav' = IF due THEN r.nav ELSE nav2
             /\ pos' = IF due THEN r.pos ELSE pos
             /\ last_px' = px1
             /\ last_rebal_ts' = IF due THEN r.last_rebal_ts ELSE last_rebal_ts
             /\ ret_hist' = rets1
             /\ spread_hist' = IF due THEN r.spread_hist ELSE spread_hist
             /\ pair_state' = IF due THEN r.pair_state ELSE pair_state
             /\ ts' = t
             /\ steps' = steps + 1
             /\ out' = [timestamp |-> t, nav |-> nav',
                        gross_turnover_e6 |-> IF due THEN r.gross_e6 ELSE 0,
                        fee_e6 |-> IF due THEN r.fee_e6 ELSE 0,
                        funding_e6 |-> funding_e6,
                        note |-> IF due THEN r.note ELSE ""]
             /\ nav_series' = Append(nav_series, nav')
             /\ ev' = [row |-> row, funding |-> funding, due |-> due,
                       before |-> pair_state, pos0 |-> pos,
                       evaluated |-> due /\ r.evaluated,
                       z |-> IF due THEN r.z ELSE ZeroZ,
                       nav |-> nav2,
                       targets |-> IF due THEN r.targets ELSE EmptyDict,
                       final |-> IF due THEN r.final ELSE EmptyDict]
             /\ obs' = [constPx |-> obs.constPx /\
                            \A s \in DOMAIN row :
                                s \in DOMAIN last_px => row[s] = last_px[s],
                        zeroFunding |-> obs.zeroFunding /\ DOMAIN funding = {},
                        zBelow |-> obs.zBelow /\
                            (due /\ r.evaluated => ~ZGe(r.z, strat.params.k_in)),
                        zInside |-> obs.zInside /\
                            (due /\ r.evaluated =>
                                /\ ~ZGe(r.z, strat.params.k_in)
                                /\ ~ZLeNeg(r.z, strat.params.k_in)),
                        sinceEntry |->
                            IF ~(due /\ r.evaluated) THEN obs.sinceEntry
                            ELSE IF r.pair_state.regime = "neutral" THEN -1
                            ELSE IF pair_state.regime = "neutral" THEN 0
                            ELSE IF obs.sinceEntry >= 0 THEN obs.sinceEntry + 1
                            ELSE -1]

\* backtest: one iteration of `for ts in timeline`, on the rows of
\* timestamp t (prices row, non-zero funding rates funding)
BacktestStep(t, row, funding) ==
    IF ZeroPrevPrice(row)
    THEN \* row[s] / last_px[s] raises ZeroDivisionError
         /\ bpc' = "zero_division"
         /\ UNCHANGED <<nav, pos, last_px, last_rebal_ts, ret_hist, spread_hist,
                        pair_state, ts, steps, out, nav_series, ev, obs>>
    ELSE
    LET funding_e6 == IF DOMAIN funding # {} THEN FundingPnl(funding) ELSE 0
        nav2 == nav + PricePnl(row) + funding_e6
    IN  FinishStep(t, row, funding, funding_e6, nav2, RetHistAfter(row),
                   row @@ last_px, CooldownElapsed(t),
                   Rebalance(t, nav2, row @@ last_px, RetHistAfter(row)))

\* compute_metrics, max drawdown: peak follows the running maximum of the
\* series from nav_series[0]; dd = (v / peak) - 1.0 divides by zero when
\* the peak is 0
RECURSIVE DrawdownRaises(_, _, _)
DrawdownRaises(series, i, peak) ==
    IF i > Len(series) THEN FALSE
    ELSE LET pk == IF series[i] > peak THEN series[i] ELSE peak
         IN  pk = 0 \/ DrawdownRaises(series, i + 1, pk)

\* compute_metrics(nav_series, ts_series) raises ZeroDivisionError.  Fewer
\* than two values return early; total_return, cagr, the step returns and
\* the Sharpe ratio test their divisor; the drawdown loop does not.
compute_metrics_raises(series) ==
    Len(series) >= 2 /\ DrawdownRaises(series, 1, series[1])

----------------------------------------------------------------------------
(* Runs: load_strategy, then backtest over a price list drawn step by step *)

WideSteps == 3     \* steps of a run on the "wide" feed
LongSteps == 11    \* steps of a run on the "long" feed
SlowSteps == 16    \* steps of a run on the "slow" feed
StartUSD == 4      \* start_nav_usd
FundBps == 5000    \* the non-zero funding rate of the feeds (bps)

\* The rows of one timestamp.  "wide": any non-empty set of symbols, each
\* at any price.  "long": both BTC and ETH, ETH at price 1.  "zero": as
\* "long", and the close of BTC may be 0 (read_prices_csv keeps such a row).
\* "slow": as "long", over more timestamps.
Rows(fd, syms) ==
    IF fd = "wide"
    THEN UNION {[D -> PxSet] : D \in SUBSET syms \ {{}}}
    ELSE IF fd = "zero"
    THEN {("BTC" :> p) @@ ("ETH" :> 1) : p \in PxSet \cup {0}}
    ELSE {("BTC" :> p) @@ ("ETH" :> 1) : p \in PxSet}

\* funding_bps_by_ts[ts]: the non-zero funding rates of one timestamp, of
\* either sign, on one symbol of the row or on both
Fundings(fd, row) ==
    IF fd = "wide"
    THEN {EmptyDict}
            \cup {s :> f : s \in DOMAIN row, f \in {FundBps, -FundBps}}
            \cup {[s \in DOMAIN row |-> FundBps]}
    ELSE {EmptyDict}

StepBound(fd) ==
    IF fd = "wide" THEN WideSteps
    ELSE IF fd = "slow" THEN SlowSteps
    ELSE LongSteps

BaseCfg ==
    [Config EXCEPT !.turnoverCapBps = 10000, !.cooldownSeconds = 0,
                   !.feeBps = 0, !.slipBps = 0]

RunCfgs ==
    {BaseCfg,
     [BaseCfg EXCEPT !.feeBps = 1000, !.slipBps = 1500],
     [BaseCfg EXCEPT !.cooldownSeconds = 2],
     [BaseCfg EXCEPT !.turnoverCapBps = 5000,
                     !.perSymbolMaxUSD = ("BTC" :> 3) @@ ("ETH" :> 2)],
     [BaseCfg EXCEPT !.maxNetDeltaUSD = 1,
                     !.perSymbolMaxUSD = ("BTC" :> 3) @@ ("default" :> 250000)],
     [BaseCfg EXCEPT !.rebalanceThresholdBps = 5000, !.feeBps = 2500],
     [BaseCfg EXCEPT !.leverage = Ratio(3, 2), !.turnoverCapBps = 20000]}

\* A cooldown, a rebalance threshold and a fee together
SlowCfg ==
    [BaseCfg EXCEPT !.cooldownSeconds = 2, !.rebalanceThresholdBps = 5000,
                    !.feeBps = 2500]

PairA ==
    [PairParams EXCEPT !.lookback = 8, !.maxSkewBps = 10000]
PairB ==
    [PairParams EXCEPT !.lookback = 8, !.k_in = Ratio(1, 1), !.k_out = Ratio(1, 2),
                       !.minHoldSteps = 2, !.regimeStopBps = 0, !.regimeTPBps = 0,
                       !.maxSkewBps = 10000]
PairC ==
    [PairParams EXCEPT !.lookback = 0, !.k_in = Ratio(3, 2), !.minHoldSteps = 1,
                       !.regimeStopBps = 6000, !.regimeTPBps = 6000,
                       !.maxSkewBps = 5000, !.useBetaHedge = TRUE,
                       !.neutralDriftThresholdBps = 2500]

WideStrats ==
    {ExampleStrat,
     FixedBucket(NoType, <<Entry("BTC", 5000), Entry("ETH", 5000)>>,
                         <<Entry("ETH", 10000)>>),
     FixedBucket("fixed_bucket", <<Entry("BTC", 5000)>>, <<Entry("ETH", 2500)>>),
     FixedBucket(NoType, <<Entry("BTC", 5000)>>, <<Entry("ETH", 10000)>>),
     PairBreakout(<<"BTC", "ETH">>, PairA),
     PairBreakout(<<>>, PairC),
     PairBreakout(<<"BTC">>, PairA)}

\* A strategy that names BTC only: ETH is in the price list and not in the
\* strategy
LongOnlyStrat == FixedBucket("fixed_bucket", <<Entry("BTC", 10000)>>, <<>>)

LongStrats ==
    {PairBreakout(<<"BTC", "ETH">>, p) : p \in {PairA, PairB, PairC}}

Scenario(st, c, fd, usd) ==
    [strat |-> st, cfg |-> c, feed |-> fd, start_nav_usd |-> usd]

\* The "zero" runs trade fixed buckets (the spread of a pair is the
\* logarithm of a price ratio), from a positive or a zero start_nav_usd.
Scenarios ==
    {Scenario(st, c, "wide", StartUSD) : st \in WideStrats, c \in RunCfgs}
        \cup {Scenario(st, c, "long", StartUSD) : st \in LongStrats,
                c \in {BaseCfg, [BaseCfg EXCEPT !.feeBps = 1000]}}
        \cup {Scenario(ExampleStrat, SlowCfg, "long", StartUSD)}
        \cup {Scenario(PairBreakout(<<"BTC", "ETH">>, PairB),
                        [BaseCfg EXCEPT !.rebalanceThresholdBps = 5000,
                                        !.feeBps = 2500],
                        "long", StartUSD)}
        \cup {Scenario(PairBreakout(<<"BTC", "ETH">>, PairA),
                        [BaseCfg EXCEPT !.cooldownSeconds = 2],
                        "slow", StartUSD)}
        \cup {Scenario(LongOnlyStrat, c, "wide", StartUSD) :
                c \in {BaseCfg, [BaseCfg EXCEPT !.feeBps = 1000]}}
        \cup {Scenario(ExampleStrat, c, "zero", usd) :
                c \in {BaseCfg, [BaseCfg EXCEPT !.feeBps = 1000]},
                usd \in {0, StartUSD}}

\* The state backtest constructs before its first step
Constructed ==
    /\ nav = start_nav
    /\ pos = [s \in Symbols |-> 0]
    /\ last_px = EmptyDict
    /\ last_rebal_ts = NoTs
    /\ ret_hist = [s \in symbols |-> <<>>]
    /\ spread_hist = <<>>
    /\ pair_state = NoState
    /\ ts = 0
    /\ steps = 0
    /\ out = NoRow
    /\ nav_series = <<>>
    /\ ev = NoEval
    /\ obs = [constPx |-> TRUE, zeroFunding |-> TRUE, zBelow |-> TRUE,
              zInside |-> TRUE, sinceEntry |-> -1]

BInit ==
    /\ bpc = "load"
    /\ \E sc \in Scenarios :
        /\ strat = sc.strat
        /\ cfg = sc.cfg
        /\ feed = sc.feed
        /\ start_nav = sc.start_nav_usd * E6
    /\ symbols = {"BTC", "ETH"}
    /\ Constructed

\* No run: the state of the run variables while the guard pipeline is
\* called on its own
BIdle ==
    /\ bpc = "idle"
    /\ strat = NoStrat
    /\ cfg = Config
    /\ feed = "none"
    /\ symbols = {}
    /\ start_nav = 0
    /\ Constructed

\* strat = load_strategy(path): the definition is returned, or ValueError
LoadStrategy ==
    /\ bpc = "load"
    /\ bpc' = IF load_strategy_accepts(strat) THEN "run" ELSE "rejected"
    /\ UNCHANGED <<strat, cfg, symbols, feed, start_nav, nav, pos, last_px,
                   last_rebal_ts, ret_hist, spread_hist, pair_state, ts, steps,
                   out, nav_series, ev, obs>>
    /\ UNCHANGED <<gvars, tvars, pvars, cvars>>

\* backtest: the loop body for the next timestamp of the timeline
Step ==
    /\ bpc = "run"
    /\ steps < StepBound(feed)
    /\ \E row \in Rows(feed, symbols) :
         \E funding \in Fundings(feed, row) :
            BacktestStep(ts + 1, row, funding)
    /\ UNCHANGED <<strat, cfg, symbols, feed, start_nav>>
    /\ UNCHANGED <<gvars, tvars, pvars, cvars>>

\* backtest, after the last timestamp: metrics = compute_metrics(...)
Finish ==
    /\ bpc = "run"
    /\ bpc' = IF compute_metrics_raises(nav_series)
              THEN "metrics_zero_division" ELSE "done"
    /\ UNCHANGED <<strat, cfg, symbols, feed, start_nav, nav, pos, last_px,
                   last_rebal_ts, ret_hist, spread_hist, pair_state, ts, steps,
                   out, nav_series, ev, obs>>
    /\ UNCHANGED <<gvars, tvars, pvars, cvars>>

BNext == LoadStrategy \/ Step \/ Finish

----------------------------------------------------------------------------
(* Properties of a run                                                     *)

IsPair == strat.type = "pair_neutral_breakout"
Running == bpc = "run" /\ steps >= 1

\* C5: with feeBps = 0, slipBps = 0, every funding value 0 and every
\* symbol's price the same at every timestamp, the NAV after every step
\* (the NAV of the loop and the NAV written to the output row) equals the
\* starting NAV, whatever the strategy, the cooldown and the caps.
C5_NavRoundTrip ==
    (Running /\ cfg.feeBps = 0 /\ cfg.slipBps = 0 /\ obs.zeroFunding /\ obs.constPx)
        => nav = start_nav /\ out.nav = start_nav

\* C5 witness: a later step of such a run that executed a rebalance with a
\* non-zero turnover and holds a position.
C5_Witness ==
    /\ Running /\ steps >= 2
    /\ cfg.feeBps = 0 /\ cfg.slipBps = 0 /\ obs.zeroFunding /\ obs.constPx
    /\ out.note = "rebalance" /\ out.gross_turnover_e6 > 0
    /\ \E s \in Symbols : pos[s] # 0
    /\ nav = start_nav

\* C6: every definition that load_strategy accepted and that backtest runs
\* as a fixed-bucket strategy (its type is not pair_neutral_breakout) has
\* longs bps and shorts bps that each sum to exactly 10000.
C6_RunsOnlyValidBuckets ==
    (Running /\ ~IsPair)
        => sum_bps(strat.longs) = 10000 /\ sum_bps(strat.shorts) = 10000

\* C7 as stated: in a pair run, if the z-score of every evaluation so far
\* was below k_in, the regime is neutral.
C7_BelowKinNeutral ==
    (Running /\ IsPair /\ obs.zBelow) => pair_state.regime = "neutral"

\* C7 amended: in a pair run, if the z-score of every evaluation so far
\* was strictly between -k_in and k_in, the regime is neutral.
C7_InsideBandNeutral ==
    (Running /\ IsPair /\ obs.zInside) => pair_state.regime = "neutral"

\* C7 witness: past the warm-up, an evaluation with a z-score at or above
\* k_out and below k_in, every z-score so far inside the band, regime
\* neutral.
C7_Witness ==
    /\ Running /\ IsPair /\ obs.zInside
    /\ ev.evaluated /\ Len(spread_hist) > MinSamples
    /\ ZGe(ev.z, strat.params.k_out)
    /\ pair_state.regime = "neutral"

\* C8: an evaluation that starts in neutral ends in long exactly when
\* k_in > 0 and its z >= k_in, so the entry happens at the first such
\* evaluation and at no earlier one; on that entry hold is 0 and the entry
\* NAV is the NAV of that evaluation.
C8_EntryAtFirstCross ==
    (Running /\ IsPair /\ ev.evaluated /\ ev.before.regime = "neutral")
        => /\ pair_state.regime = "long"
                <=> (strat.params.k_in.num > 0 /\ ZGe(ev.z, strat.params.k_in))
           /\ pair_state.regime = "long"
                => pair_state.hold = 0 /\ pair_state.entry_nav_e6 = ev.nav

\* C8 witness: k_in = 2.0 and k_out = 1.0, the regime entered long from
\* neutral at an evaluation whose NAV is no longer the starting NAV.
C8_Witness ==
    /\ Running /\ IsPair /\ ev.evaluated
    /\ strat.params.k_in = Ratio(2, 1) /\ strat.params.k_out = Ratio(1, 1)
    /\ ev.before.regime = "neutral" /\ pair_state.regime = "long"
    /\ ZGe(ev.z, strat.params.k_in)
    /\ pair_state.hold = 0
    /\ pair_state.entry_nav_e6 = ev.nav /\ ev.nav # start_nav

\* C9: no step changes the pair regime from long to short or from short
\* to long: a regime that leaves long or short becomes neutral.
C9_NoDirectFlip ==
    [][/\ ~(pair_state.regime = "long" /\ pair_state'.regime = "short")
       /\ ~(pair_state.regime = "short" /\ pair_state'.regime = "long")]_vars

\* C9 witness: an evaluation in regime long whose z-score is at or below
\* -k_in, after which the regime is still long.
C9_Witness ==
    /\ Running /\ IsPair /\ ev.evaluated
    /\ ev.before.regime = "long"
    /\ ZLeNeg(ev.z, strat.params.k_in)
    /\ pair_state.regime = "long"

\* The example run: longs BTC 10000 bps, shorts ETH 10000 bps, leverage 1,
\* turnoverCapBps 10000, cooldown 0, caps and net-delta limit not binding.
IsExampleRun == strat = ExampleStrat /\ cfg = BaseCfg

\* C11: in the example run the first rebalance is not scaled down: the
\* positions adopted at the first step are the targets
\* {BTC: +start NAV, ETH: -start NAV}.
C11_FirstStepAdoptsTargets ==
    (Running /\ IsExampleRun /\ steps = 1)
        => pos["BTC"] = start_nav /\ pos["ETH"] = -start_nav

Raises == {"raised", "zero_division", "metrics_zero_division"}

\* C15: degenerate arithmetic never raises in the backtest engine: a step
\* with a NAV of zero or a previous price of zero, and an all-zero NAV
\* series in the metrics, are resolved to a neutral value and the run
\* continues, so no run ends in a ZeroDivisionError.
C15_DegenerateNeverRaises ==
    bpc # "zero_division" /\ bpc # "metrics_zero_division"

\* C16: a run always completes, for every price list and every accepted
\* strategy: a run of a pair strategy (any number of symbols) never ends in
\* an exception, and has written one row per timestamp so far, the last one
\* carrying the latest timestamp.
C16_PairRunCompletes ==
    IsPair => /\ bpc \notin Raises
              /\ Len(nav_series) = steps
              /\ (steps >= 1 => out.timestamp = ts)

\* One loop iteration that wrote its row
StepTaken == bpc = "run" /\ bpc' = "run" /\ steps' = steps + 1
Skips == {"skip_neutral_drift", "skip_threshold"}

\* C17: cooldown.  At a step where less than cooldownSeconds has passed
\* since the last executed rebalance, the positions, the pair regime state
\* and the cooldown clock are unchanged, no fee is charged and the row is
\* not noted `rebalance`; so a row noted `rebalance` is at least
\* cooldownSeconds later than the previous one.
C17_Cooldown ==
    [][StepTaken =>
        /\ (last_rebal_ts # NoTs /\ ts' - last_rebal_ts < cfg.cooldownSeconds)
              => /\ pos' = pos /\ pair_state' = pair_state
                 /\ last_rebal_ts' = last_rebal_ts
                 /\ out'.fee_e6 = 0 /\ out'.gross_turnover_e6 = 0
                 /\ nav' = ev'.nav
                 /\ out'.note # "rebalance"
        /\ (out'.note = "rebalance" /\ last_rebal_ts # NoTs)
              => ts' - last_rebal_ts >= cfg.cooldownSeconds
        /\ out.note = "rebalance" => last_rebal_ts = out.timestamp
    ]_vars

\* C17 witness: a step inside the cooldown of a run that holds a position,
\* at prices that moved since the rebalance.
C17_Witness ==
    /\ Running /\ steps >= 2
    /\ cfg.cooldownSeconds > 0 /\ ~ev.due
    /\ ts - last_rebal_ts < cfg.cooldownSeconds
    /\ ~obs.constPx
    /\ \E s \in Symbols : pos[s] # 0

\* C18: a skipped rebalance.  At a step whose row is noted
\* skip_neutral_drift or skip_threshold, the positions and the cooldown clock
\* are those of before the step and no fee is deducted from the NAV; the
\* step after a skip is evaluated for rebalance again.
C18_SkipChangesNothing ==
    [][StepTaken =>
        /\ out'.note \in Skips
              => /\ pos' = pos
                 /\ last_rebal_ts' = last_rebal_ts
                 /\ out'.fee_e6 = 0
                 /\ nav' = ev'.nav /\ out'.nav = ev'.nav
        /\ out.note \in Skips => ev'.due
    ]_vars

\* C18 witness: a skipped step of a run with a cooldown and a fee, that
\* holds a position and had a trade to make.
C18_Witness ==
    /\ Running /\ steps >= 2
    /\ out.note \in Skips /\ out.gross_turnover_e6 > 0
    /\ cfg.cooldownSeconds > 0 /\ cfg.feeBps > 0
    /\ \E s \in Symbols : pos[s] # 0

----------------------------------------------------------------------------
(* The one-tick rebalancing engine (src/hl-vix-etf/core)                   *)
(*                                                                         *)
(* Amounts are integers in USD; a quotient of the program (Decimal or      *)
(* float) is rounded toward zero to that unit.  The EWMA accumulators of   *)
(* the index are represented by the sequence of samples folded into them.  *)

Assets == {"BTC", "ETH"}
Pair(b, e) == ("BTC" :> b) @@ ("ETH" :> e)

\* Vault(cash_usd): the cash of a new vault (the default is 10000)
StartCash == 3000
\* The number of consecutive ticks of a run
TickBound == 3
\* The prices the adapter returns for an asset
TickPx == {0, 1, 2}

\* engine_tick, adapter not ready: vault.nav((60_000.0, 2_400.0))
PlaceholderBTC == 60000
PlaceholderETH == 2400
\* engine_tick, splitting heuristic: one chunk up to this |delta|, else three
ChunkLimit == 5000

\* Vault.__init__
NewVault(cash_usd) ==
    [cash |-> cash_usd, positions_usd |-> Pair(0, 0), last_px |-> EmptyDict]

\* IndexCalculator.__init__: no last price, both accumulators at 0.0
NewIndex == [last_px |-> EmptyDict, folded |-> <<>>]

\* Vault.nav, one asset: qty = positions_usd / last_px, PnL = qty * (px - last_px)
VaultPnl(v, a, px) ==
    IF a \in DOMAIN v.last_px /\ v.last_px[a] > 0
    THEN PyInt(v.positions_usd[a] * (px - v.last_px[a]), v.last_px[a])
    ELSE 0

\* Vault.nav(pxs): accrues the PnL since last_px into cash, stores pxs as
\* last_px; the NAV returned is the cash of the vault after the call
VaultNav(v, pxs) ==
    [v EXCEPT !.cash = v.cash + VaultPnl(v, "BTC", pxs["BTC"])
                              + VaultPnl(v, "ETH", pxs["ETH"]),
              !.last_px = pxs]

\* log(px / last_px) in units of log 2, for prices that are powers of two;
\* 0.0 when last_px is not positive
LogReturn(px, last) == IF last > 0 THEN Log2(px) - Log2(last) ELSE 0

\* IndexCalculator.update(pxs, fund_bps_day, wB, wE), called by
\* IndexStore.update: last_px is initialised where it is absent or not
\* positive; log(px / last_px) raises ValueError for px <= 0 with a positive
\* last_px, before any accumulator is assigned; otherwise the returns and
\* the funding rates are folded into ewma_var and ewma_fund and last_px is
\* replaced.
IndexUpdate(ix, pxs, fund) ==
    LET lp1 == [a \in Assets |->
                    IF a \notin DOMAIN ix.last_px \/ ix.last_px[a] <= 0
                    THEN pxs[a] ELSE ix.last_px[a]]
    IN  IF \E a \in Assets : lp1[a] > 0 /\ pxs[a] <= 0
        THEN [raised |-> TRUE, index |-> [ix EXCEPT !.last_px = lp1]]
        ELSE [raised |-> FALSE,
              index |-> [last_px |-> pxs,
                         folded |-> Append(ix.folded,
                            [r |-> [a \in Assets |-> LogReturn(pxs[a], lp1[a])],
                             fund |-> fund])]]

\* targets_mode_a(nav, weights, L_base)
targets_mode_a(nav_, weights, L_base) ==
    [a \in Assets |->
        PyInt(nav_ * L_base.num * weights[a].num, L_base.den * weights[a].den)]

\* A variant of check_leverage that compares the leverage only:
check_leverage_any_nav(tb, te, nav_, L_max) ==
    IF (Abs(tb) + Abs(te)) * L_max.den > L_max.num * nav_
    THEN "leverage exceeds cap" ELSE ""

\* check_leverage(target_b, target_e, nav, L_max): the message of the
\* ValueError it raises, "" when it returns
check_leverage(tb, te, nav_, L_max) ==
    IF nav_ <= 0 THEN "NAV must be positive"
    ELSE IF (Abs(tb) + Abs(te)) * L_max.den > L_max.num * nav_
    THEN "leverage exceeds cap" ELSE ""

\* check_asset_caps(target_b, target_e, nav, cap), limit = cap * nav
check_asset_caps(tb, te, nav_, cap) ==
    IF Abs(tb) * cap.den > cap.num * nav_
    THEN "BTC target exceeds per-asset cap"
    ELSE IF Abs(te) * cap.den > cap.num * nav_
    THEN "ETH target exceeds per-asset cap" ELSE ""

\* Adapter.estimate_slippage_bps(asset, delta_usd), the same in the mock,
\* the back-test and the RPC adapter
estimate_slippage_bps(delta_usd) ==
    IF Abs(delta_usd) <= 1000 THEN 5
    ELSE IF Abs(delta_usd) <= 5000 THEN 12
    ELSE IF Abs(delta_usd) <= 20000 THEN 25
    ELSE 35

\* What the adapter does during one tick.  fetch: get_prices raises (with
\* the message msg, empty for a bare NotImplementedError), or
\* get_funding_bp_day raises, or both return.  fault: the call of the
\* trading loop that raises, if any.
NoFault == [call |-> "none", asset |-> "BTC", chunk |-> 0]
Fault(c, a, i) == [call |-> c, asset |-> a, chunk |-> i]
TickFaults ==
    {NoFault, Fault("estimate", "BTC", 1), Fault("place", "BTC", 2),
     Fault("place", "ETH", 1)}
FundingBpDay == Pair(4, -5)
TickFetches ==
    {[kind |-> "prices_raise", msg |-> m, pxs |-> Pair(0, 0)] :
        m \in {"", "HypeRPC prices unavailable"}}
      \cup {[kind |-> "funding_raise", msg |-> "HypeRPC funding unavailable",
             pxs |-> Pair(0, 0)]}
      \cup {[kind |-> "ok", msg |-> "", pxs |-> Pair(b, e)] :
                b \in TickPx, e \in TickPx}

NoSlip == -1    \* slp_b = "": no slippage estimate was returned

\* min_trade = nav_before * min_trade_frac, rounded up: for an integer
\* delta, abs(delta) < min_trade is abs(delta) < ceil(min_trade)
MinTradeCeil(nav_before, frac) ==
    (nav_before * frac.num + frac.den - 1) \div frac.den

\* A variant of the trading loop that places the orders of a dry run:
TradeAssetIgnoresDryRun(a, delta, nav_before, fault, posa, aposa, cfg_) ==
    IF nav_before > 0 /\ Abs(delta) < MinTradeCeil(nav_before, cfg_.min_trade_frac)
    THEN [pos |-> posa, apos |-> aposa, ord |-> 0, orders |-> 0, err |-> "",
          slp |-> NoSlip]
    ELSE
    LET chunks == IF Abs(delta) <= ChunkLimit THEN 1 ELSE 3
        part == PyInt(delta, chunks)
        slp == estimate_slippage_bps(part)
        hit == fault.asset = a /\ fault.chunk <= chunks
        est_fault == hit /\ fault.call = "estimate"
        over_cap == slp > cfg_.slippage_cap_bps
        place_fault == hit /\ fault.call = "place" /\ ~cfg_.dry_run
        \* the chunk at which an exception leaves the inner loop
        fail_at == IF est_fault /\ fault.chunk = 1 THEN 1
                   ELSE IF over_cap THEN 1
                   ELSE IF est_fault \/ place_fault THEN fault.chunk
                   ELSE chunks + 1
        done == fail_at - 1
        placed == done
        msg == IF est_fault /\ fault.chunk = 1 THEN "estimate failed"
               ELSE IF over_cap THEN "slippage exceeds cap"
               ELSE IF est_fault THEN "estimate failed"
               ELSE IF place_fault THEN "order failed"
               ELSE ""
    IN  [pos |-> IF placed >= 1 THEN aposa + placed * part ELSE posa,
         apos |-> aposa + placed * part,
         ord |-> done * Abs(part), orders |-> done,
         err |-> IF fail_at <= chunks THEN a \o ": " \o msg ELSE "",
         slp |-> IF (est_fault /\ fault.chunk = 1) \/ over_cap
                 THEN NoSlip ELSE slp]

\* A variant of the trading loop that places a chunk before its slippage
\* is checked:
TradeAssetPlacesBeforeCheck(a, delta, nav_before, fault, posa, aposa, cfg_) ==
    IF nav_before > 0 /\ Abs(delta) < MinTradeCeil(nav_before, cfg_.min_trade_frac)
    THEN [pos |-> posa, apos |-> aposa, ord |-> 0, orders |-> 0, err |-> "",
          slp |-> NoSlip]
    ELSE
    LET chunks == IF Abs(delta) <= ChunkLimit THEN 1 ELSE 3
        part == PyInt(delta, chunks)
        slp == estimate_slippage_bps(part)
        hit == fault.asset = a /\ fault.chunk <= chunks
        est_fault == hit /\ fault.call = "estimate"
        over_cap == slp > cfg_.slippage_cap_bps
        place_fault == hit /\ fault.call = "place" /\ ~cfg_.dry_run
        \* the chunk at which an exception leaves the inner loop
        fail_at == IF est_fault /\ fault.chunk = 1 THEN 1
                   ELSE IF over_cap THEN 1
                   ELSE IF est_fault \/ place_fault THEN fault.chunk
                   ELSE chunks + 1
        done == fail_at - 1
        placed == IF cfg_.dry_run THEN 0
                  ELSE IF over_cap /\ ~(est_fault /\ fault.chunk = 1) THEN 1
                  ELSE done
        msg == IF est_fault /\ fault.chunk = 1 THEN "estimate failed"
               ELSE IF over_cap THEN "slippage exceeds cap"
               ELSE IF est_fault THEN "estimate failed"
               ELSE IF place_fault THEN "order failed"
               ELSE ""
    IN  [pos |-> IF placed >= 1 THEN aposa + placed * part ELSE posa,
         apos |-> aposa + placed * part,
         ord |-> done * Abs(part), orders |-> done,
         err |-> IF fail_at <= chunks THEN a \o ": " \o msg ELSE "",
         slp |-> IF (est_fault /\ fault.chunk = 1) \/ over_cap
                 THEN NoSlip ELSE slp]

\* engine_tick, trading loop, one asset.  posa is the vault's position and
\* aposa the adapter's position of the asset.  The chunks are equal, so
\* the slippage estimate is the same for each of them.
TradeAsset(a, delta, nav_before, fault, posa, aposa, cfg_) ==
    IF nav_before > 0 /\ Abs(delta) < MinTradeCeil(nav_before, cfg_.min_trade_frac)
    THEN [pos |-> posa, apos |-> aposa, ord |-> 0, orders |-> 0, err |-> "",
          slp |-> NoSlip]
    ELSE
    LET chunks == IF Abs(delta) <= ChunkLimit THEN 1 ELSE 3
        part == PyInt(delta, chunks)
        slp == estimate_slippage_bps(part)
        hit == fault.asset = a /\ fault.chunk <= chunks
        est_fault == hit /\ fault.call = "estimate"
        over_cap == slp > cfg_.slippage_cap_bps
        place_fault == hit /\ fault.call = "place" /\ ~cfg_.dry_run
        \* the chunk at which an exception leaves the inner loop
        fail_at == IF est_fault /\ fault.chunk = 1 THEN 1
                   ELSE IF over_cap THEN 1
                   ELSE IF est_fault \/ place_fault THEN fault.chunk
                   ELSE chunks + 1
        done == fail_at - 1
        placed == IF cfg_.dry_run THEN 0 ELSE done
        msg == IF est_fault /\ fault.chunk = 1 THEN "estimate failed"
               ELSE IF over_cap THEN "slippage exceeds cap"
               ELSE IF est_fault THEN "estimate failed"
               ELSE IF place_fault THEN "order failed"
               ELSE ""
    IN  [pos |-> IF placed >= 1 THEN aposa + placed * part ELSE posa,
         apos |-> aposa + placed * part,
         ord |-> done * Abs(part), orders |-> done,
         err |-> IF fail_at <= chunks THEN a \o ": " \o msg ELSE "",
         slp |-> IF (est_fault /\ fault.chunk = 1) \/ over_cap
                 THEN NoSlip ELSE slp]

\* err_reason after both assets: the reasons joined by "; "
JoinReasons(rb, re) ==
    IF rb # "" /\ re # "" THEN rb \o "; " \o re ELSE rb \o re

NoTickRow ==
    [slot |-> -1, reached |-> "none", status |-> "", err_reason |-> "",
     nav_before |-> 0, nav_after |-> 0, px |-> Pair(0, 0),
     pos_before |-> Pair(0, 0), pos_after |-> Pair(0, 0),
     target |-> Pair(0, 0), orders |-> Pair(0, 0), order_usd |-> Pair(0, 0),
     slip_bps |-> Pair(NoSlip, NoSlip)]

\* The result of engine_tick: the row it returns, or the exception that
\* escapes it, with the vault, the index and the adapter it leaves behind
TickResult(esc, v, ix, ap, row) ==
    [escaped |-> esc, vault |-> v, index |-> ix, apos |-> ap, row |-> row]

\* engine_tick, adapter not ready: the minimal error row, built from
\* vault.nav at the placeholder prices
TickNotReady(slot, v0, ix0, ap0, msg, v1) ==
    TickResult(FALSE, v1, ix0, ap0,
        [NoTickRow EXCEPT !.slot = slot, !.reached = "fetch",
                          !.status = "ERROR", !.err_reason = msg,
                          !.nav_before = v1.cash, !.nav_after = v1.cash])

\* engine_tick, the trading loop and the final row; rb and re are the
\* results of the loop for BTC and for ETH, v1 the vault after nav_before
TickTraded(slot, pxs, ix1, v1, tgt, rb, re) ==
    LET v2 == [v1 EXCEPT !.positions_usd = Pair(rb.pos, re.pos)]
        v3 == VaultNav(v2, pxs)
        reason == JoinReasons(rb.err, re.err)
    IN  TickResult(FALSE, v3, ix1, Pair(rb.apos, re.apos),
            [slot |-> slot, reached |-> "trade",
             status |-> IF reason # "" THEN "ERROR" ELSE "OK",
             err_reason |-> reason,
             nav_before |-> v1.cash, nav_after |-> v3.cash, px |-> pxs,
             pos_before |-> v1.positions_usd,
             pos_after |-> Pair(rb.pos, re.pos),
             target |-> tgt,
             orders |-> Pair(rb.orders, re.orders),
             order_usd |-> Pair(rb.ord, re.ord),
             slip_bps |-> Pair(rb.slp, re.slp)])

\* engine_tick after nav_before: targets (mode A), the guards on the
\* targets, then the trading loop
TickGuarded(slot, pxs, ix1, v1, ap0, fault, cfg_, tgt, reason) ==
    IF reason # ""
    THEN TickResult(FALSE, v1, ix1, ap0,
            [NoTickRow EXCEPT !.slot = slot, !.reached = "guards",
                              !.status = "ERROR", !.err_reason = reason,
                              !.nav_before = v1.cash, !.nav_after = v1.cash,
                              !.px = pxs,
                              !.pos_before = v1.positions_usd,
                              !.pos_after = v1.positions_usd,
                              !.target = tgt])
    ELSE TickTraded(slot, pxs, ix1, v1, tgt,
            TradeAsset("BTC", tgt["BTC"] - v1.positions_usd["BTC"], v1.cash,
                       fault, v1.positions_usd["BTC"], ap0["BTC"], cfg_),
            TradeAsset("ETH", tgt["ETH"] - v1.positions_usd["ETH"], v1.cash,
                       fault, v1.positions_usd["ETH"], ap0["ETH"], cfg_))

\* check_leverage, then check_asset_caps: the message of the first that
\* raises
GuardReason(tgt, nav_, cfg_) ==
    IF check_leverage(tgt["BTC"], tgt["ETH"], nav_, cfg_.L_max) # ""
    THEN check_leverage(tgt["BTC"], tgt["ETH"], nav_, cfg_.L_max)
    ELSE check_asset_caps(tgt["BTC"], tgt["ETH"], nav_, cfg_.asset_cap)

TickTargeted(slot, pxs, ix1, v1, ap0, fault, cfg_, tgt) ==
    TickGuarded(slot, pxs, ix1, v1, ap0, fault, cfg_, tgt,
                GuardReason(tgt, v1.cash, cfg_))

\* engine_tick after index.update returned
TickIndexed(slot, pxs, ix1, v1, ap0, fault, cfg_) ==
    TickTargeted(slot, pxs, ix1, v1, ap0, fault, cfg_,
                 targets_mode_a(v1.cash, cfg_.weights, cfg_.L_base))

\* engine_tick(adapter, vault, index, cfg, slot, mode = "A", dry_run)
engine_tick(slot, v0, ix0, ap0, cfg_, fetch, fault, ir) ==
    IF fetch.kind # "ok"
    THEN TickNotReady(slot, v0, ix0, ap0, fetch.msg,
                      VaultNav(v0, Pair(PlaceholderBTC, PlaceholderETH)))
    ELSE IF ir.raised
    THEN \* ValueError leaves index.update and engine_tick
         TickResult(TRUE, v0, ir.index, ap0, NoTickRow)
    ELSE TickIndexed(slot, fetch.pxs, ir.index, VaultNav(v0, fetch.pxs), ap0,
                     fault, cfg_)

\* The cfg of a run.  TickCfg trades one chunk per asset; the others change
\* what their name says.
TickCfg ==
    [weights |-> Pair(Ratio(1, 2), Ratio(-1, 2)), L_base |-> Ratio(2, 1),
     L_max |-> Ratio(3, 1), asset_cap |-> Ratio(2, 1),
     min_trade_frac |-> Ratio(1, 100), slippage_cap_bps |-> 30,
     dry_run |-> FALSE]
BigCfg == [TickCfg EXCEPT !.weights = Pair(Ratio(1, 1), Ratio(0, 1))]
LeverageCfg == [TickCfg EXCEPT !.L_max = Ratio(1, 1)]
AssetCapCfg == [BigCfg EXCEPT !.asset_cap = Ratio(1, 1)]
SlippageCfg == [TickCfg EXCEPT !.slippage_cap_bps = 10]
DryCfg == [TickCfg EXCEPT !.dry_run = TRUE]
\* One asset's order above the slippage cap, the other's below it
SlipBtcCfg == [SlippageCfg EXCEPT !.weights = Pair(Ratio(3, 4), Ratio(-1, 4)),
                                  !.L_base = Ratio(1, 1)]
SlipEthCfg == [SlippageCfg EXCEPT !.weights = Pair(Ratio(1, 4), Ratio(-3, 4)),
                                  !.L_base = Ratio(1, 1)]
TickCfgs == {TickCfg, BigCfg, LeverageCfg, AssetCapCfg, SlippageCfg, DryCfg,
             SlipBtcCfg, SlipEthCfg}

TickScenarios ==
    {[cfg |-> c, cash |-> StartCash] : c \in TickCfgs}
        \cup {[cfg |-> TickCfg, cash |-> 0]}

NoTickInput == [fetch |-> [kind |-> "none", msg |-> "", pxs |-> Pair(0, 0)],
                fault |-> NoFault]

\* The positions an adapter starts with: BtAdapter.__init__ (pos_b = pos_e
\* = 0.0) and the mock Adapter.__init__ (pos_usd)
BtPositions == Pair(0, 0)
MockPositions == Pair(10800, -7920)

\* A new vault, a new index store and a new adapter
TInit ==
    /\ tpc = "ready"
    /\ \E sc \in TickScenarios :
        /\ tcfg = sc.cfg
        /\ vault = NewVault(sc.cash)
    /\ index = NewIndex
    /\ apos \in {BtPositions, MockPositions}
    /\ trow = NoTickRow
    /\ tslot = 0
    /\ tin = NoTickInput

\* No tick engine
TIdle ==
    /\ tpc = "idle"
    /\ tcfg = TickCfg
    /\ vault = NewVault(0)
    /\ index = NewIndex
    /\ apos = Pair(0, 0)
    /\ trow = NoTickRow
    /\ tslot = 0
    /\ tin = NoTickInput

\* The state engine_tick leaves behind; an exception that escapes it ends
\* the loop of main.tick
TickApply(r, fetch, fault) ==
    /\ tpc' = IF r.escaped THEN "halted" ELSE "ready"
    /\ vault' = r.vault
    /\ index' = r.index
    /\ apos' = r.apos
    /\ trow' = r.row
    /\ tslot' = tslot + 1
    /\ tin' = [fetch |-> fetch, fault |-> fault]

\* The cash and the positions a tick of the model starts from stay within
\* these, so that the amounts of the tick stay within TLC's integers
MaxCash == 500000000
MaxTickPos == 20000
TickInRange(v) ==
    /\ Abs(v.cash) <= MaxCash
    /\ \A a \in Assets : Abs(v.positions_usd[a]) <= MaxTickPos

\* One call row = engine_tick(...) of the run loop
Tick ==
    /\ tpc = "ready"
    /\ tslot < TickBound
    /\ TickInRange(vault)
    /\ \E fetch \in TickFetches, fault \in TickFaults :
         TickApply(engine_tick(tslot, vault, index, apos, tcfg, fetch, fault,
                               IndexUpdate(index, fetch.pxs, FundingBpDay)),
                   fetch, fault)
    /\ UNCHANGED tcfg
    /\ UNCHANGED <<gvars, bvars, pvars, cvars>>

TNext == Tick

----------------------------------------------------------------------------
(* Properties of the tick engine (checked under SpecTick)                  *)

\* One call of engine_tick
TickTaken == tpc = "ready" /\ tslot' = tslot + 1

\* C12: an adapter failure does not corrupt state.  When get_prices or
\* get_funding_bp_day raises, the tick returns a row with status ERROR and
\* the vault (cash, positions, last-seen prices) and the index (last price
\* and accumulators) are exactly what they were before the tick.
C12_FetchFailureKeepsState ==
    [][(TickTaken /\ tin'.fetch.kind # "ok") =>
        /\ tpc' = "ready" /\ trow'.status = "ERROR"
        /\ vault' = vault
        /\ index' = index
    ]_vars

\* The hard guards reject the targets of a tick
Rejects(tgt, nav_, cfg_) ==
    \/ nav_ <= 0
    \/ (Abs(tgt["BTC"]) + Abs(tgt["ETH"])) * cfg_.L_max.den > cfg_.L_max.num * nav_
    \/ Abs(tgt["BTC"]) * cfg_.asset_cap.den > cfg_.asset_cap.num * nav_
    \/ Abs(tgt["ETH"]) * cfg_.asset_cap.den > cfg_.asset_cap.num * nav_

\* C13: the hard guards fail fast.  If the targets of a tick have implied
\* leverage above L_max, or a target above asset_cap * NAV, or the NAV is
\* not positive, the tick places no order, leaves the positions of the
\* vault and of the adapter unchanged, and returns a row with status ERROR
\* whose positions after equal the positions before.
C13_GuardsFailFast ==
    [][(TickTaken /\ trow'.reached \in {"guards", "trade"}
            /\ Rejects(trow'.target, trow'.nav_before, tcfg)) =>
        /\ trow'.status = "ERROR" /\ trow'.err_reason # ""
        /\ trow'.orders = Pair(0, 0) /\ trow'.order_usd = Pair(0, 0)
        /\ vault'.positions_usd = vault.positions_usd
        /\ apos' = apos
        /\ trow'.pos_before = vault.positions_usd
        /\ trow'.pos_after = trow'.pos_before
    ]_vars

\* C13 witness: a tick rejected by the guards while the vault holds
\* positions, in a run whose earlier tick traded.
C13_Witness ==
    /\ tpc = "ready" /\ tslot >= 2
    /\ trow.reached = "guards" /\ trow.status = "ERROR"
    /\ Rejects(trow.target, trow.nav_before, tcfg)
    /\ vault.positions_usd["BTC"] # 0 /\ vault.positions_usd["ETH"] # 0
    /\ trow.target # vault.positions_usd

\* C14: engine_tick never lets an exception escape: every call returns a
\* row, and a row with status ERROR has a non-empty err_reason.
C14_NoExceptionEscapes ==
    /\ tpc # "halted"
    /\ trow.status = "ERROR" => trow.err_reason # ""

----------------------------------------------------------------------------
(* Calls of compute_targets_pair_breakout on bounded arguments             *)

MaxHold == 2       \* the hold counter of a passed state is drawn from 0..MaxHold

\* Parameters with a lookback shorter than the 8-sample warm-up
PairShort ==
    [PairParams EXCEPT !.lookback = 4, !.k_in = Ratio(1, 1), !.k_out = Ratio(1, 2),
                       !.maxSkewBps = 10000]
\* Parameters whose stop-loss and take-profit lie between the returns of
\* two neighbouring NAV values (from an entry at 3: -3333.3 bps at NAV 2)
PairD ==
    [PairParams EXCEPT !.lookback = 8, !.minHoldSteps = 1,
                       !.regimeStopBps = 3334, !.regimeTPBps = 3334,
                       !.maxSkewBps = 5000]

PairParamSets == {PairA, PairB, PairC, PairD, PairShort}

PairCfgs == {Config, [Config EXCEPT !.leverage = Ratio(3, 2)]}

\* nav: negative, zero, around the entry NAVs of PairStates, and large
PairNavs == {-3, 0, 2, 3, 5, 40}

\* The state dict the caller passes: empty on the first call, afterwards as
\* an earlier call left it
PairStates ==
    {NoState} \cup
    {[regime |-> r, hold |-> h, has_entry |-> TRUE, entry_nav_e6 |-> e] :
        r \in {"neutral", "long", "short"}, h \in 0..MaxHold,
        e \in {0, 3, 4}}

\* spread_hist[(symA, symB)] before the call: empty, seven samples (the
\* call appends the eighth), or eight samples
PairHists ==
    {<<>>,
     <<0, 0, 0, 0, 0, 0, 0>>,
     <<0, 0, 0, 0, 1, 1, 1>>,
     <<1, 1, 0, 0, 0, 0, 0, 0>>}

\* last_px: both prices, or the price of symA alone
PairRows ==
    [{"BTC", "ETH"} -> PxSet] \cup {"BTC" :> p : p \in PxSet}

\* ret_hist (numerators over RetDen): no returns, and returns with a beta
\* of 2, of -1 (below betaMin) and of 6 (above betaMax)
PairRets ==
    {EmptyDict,
     ("BTC" :> <<2, -2>>) @@ ("ETH" :> <<1, -1>>),
     ("BTC" :> <<-1, 1>>) @@ ("ETH" :> <<1, -1>>),
     ("BTC" :> <<6, -6>>) @@ ("ETH" :> <<1, -1>>)}

NoPairCall ==
    [targets |-> EmptyDict,
     meta |-> [regime |-> "neutral", neutralSkipBps |-> 0],
     state |-> NoState, spread_hist |-> <<>>,
     evaluated |-> FALSE, z |-> ZeroZ]

NoPairInput ==
    [nav |-> 0, px |-> EmptyDict, rets |-> EmptyDict, params |-> PairParams,
     cfg |-> Config, state |-> NoState, hist |-> <<>>]

PInit ==
    /\ ppc = "start"
    /\ pin = NoPairInput
    /\ pout = NoPairCall

\* No call of compute_targets_pair_breakout on its own
PIdle ==
    /\ ppc = "idle"
    /\ pin = NoPairInput
    /\ pout = NoPairCall

\* compute_targets_pair_breakout(nav, last_px, ret_hist, 'BTC', 'ETH',
\* params, cfg, state, spread_hist).  ret_hist is read only with
\* useBetaHedge.
CallPairBreakout ==
    /\ ppc = "start"
    /\ \E nav_ \in PairNavs, px \in PairRows, params \in PairParamSets,
          cfg_ \in PairCfgs, state \in PairStates, hist \in PairHists :
        \E rets \in IF params.useBetaHedge THEN PairRets ELSE {EmptyDict} :
            /\ pin' = [nav |-> nav_, px |-> px, rets |-> rets, params |-> params,
                       cfg |-> cfg_, state |-> state, hist |-> hist]
            /\ pout' = compute_targets_pair_breakout(nav_, px, rets, "BTC", "ETH",
                            params, cfg_, state, hist)
    /\ ppc' = "called"
    /\ UNCHANGED <<gvars, bvars, tvars, cvars>>

PNext == CallPairBreakout

----------------------------------------------------------------------------
(* Properties of one pair evaluation (checked under SpecPair)              *)

\* The call evaluated the pair (both prices were there)
PairCalled == ppc = "called" /\ pout.evaluated

\* regime and entry_nav_e6 as the call read them from the state dict
RegimeBefore == pin.state.regime
EntryBefore ==
    IF pin.state.has_entry THEN pin.state.entry_nav_e6 ELSE pin.nav
HeldBefore == PairCalled /\ RegimeBefore \in {"long", "short"}

\* The NAV return since entry, (NAV - E) * 10000 / E as an exact ratio, is
\* at or beyond the stop-loss / the take-profit (E > 0, the limit switched on)
ExactStop ==
    /\ EntryBefore > 0 /\ pin.params.regimeStopBps > 0
    /\ (pin.nav - EntryBefore) * 10000 <= -pin.params.regimeStopBps * EntryBefore
ExactTP ==
    /\ EntryBefore > 0 /\ pin.params.regimeTPBps > 0
    /\ (pin.nav - EntryBefore) * 10000 >= pin.params.regimeTPBps * EntryBefore

\* C21: an evaluation in regime long or short whose NAV return since entry
\* is at or beyond the stop-loss or the take-profit leaves regime = neutral
\* and hold = 0, and every evaluation that ends in neutral leaves hold = 0.
C21_StopResetsHold ==
    /\ HeldBefore /\ (ExactStop \/ ExactTP)
        => pout.state.regime = "neutral" /\ pout.state.hold = 0
    /\ HeldBefore /\ pout.state.regime = "neutral" => pout.state.hold = 0

\* The evaluation cannot leave the regime on |z| <= k_out: the hold is
\* below minHoldSteps, or |z| > k_out
NoZExit ==
    \/ pin.state.hold < pin.params.minHoldSteps
    \/ ZAbsGt(pout.z, pin.params.k_out)

\* C22: in regime long or short the stop-loss / take-profit transition to
\* neutral happens only if the NAV return since entry, as an exact ratio
\* (NAV - E) * 10000 / E with E > 0, is <= -regimeStopBps or >= regimeTPBps.
C22_StopOnlyAtRealLoss ==
    HeldBefore /\ NoZExit /\ pout.state.regime = "neutral"
        => ExactStop \/ ExactTP

\* The stop-loss or the take-profit of the regime logic fires at NAV nav_
\* for a regime entered at NAV entry
StopOrTPFires(nav_, entry, params) ==
    /\ entry > 0
    /\ \/ /\ params.regimeStopBps > 0
          /\ ((nav_ - entry) * 10000) \div entry <= -params.regimeStopBps
       \/ /\ params.regimeTPBps > 0
          /\ ((nav_ - entry) * 10000) \div entry >= params.regimeTPBps

\* C23: after the regime was entered at an evaluation, each of the next
\* minHoldSteps evaluations at which neither the stop-loss nor the
\* take-profit fires leaves the regime as entered, whatever z is; so the
\* exit on |z| <= k_out comes at the (minHoldSteps + 1)-th evaluation after
\* the entry at the earliest.
C23_MinHoldLock ==
    [][(/\ StepTaken /\ IsPair /\ ev'.due /\ ev'.evaluated
        /\ pair_state.regime \in {"long", "short"}
        /\ obs.sinceEntry >= 0
        /\ obs.sinceEntry < strat.params.minHoldSteps
        /\ ~StopOrTPFires(ev'.nav, pair_state.entry_nav_e6, strat.params))
       => pair_state'.regime = pair_state.regime]_vars

\* C23 witness: the second evaluation after an entry, inside a minimum hold
\* of two: |z| <= k_out, and the regime is still the entered one.
C23_Witness ==
    /\ Running /\ IsPair /\ ev.due /\ ev.evaluated
    /\ strat.params.minHoldSteps = 2
    /\ ev.before.regime \in {"long", "short"}
    /\ obs.sinceEntry = 2
    /\ ZAbsLe(ev.z, strat.params.k_out)
    /\ pair_state.regime = ev.before.regime

\* An evaluation in regime long or short past the minimum hold at which
\* neither the stop-loss nor the take-profit fires
PastHoldNoStop ==
    /\ HeldBefore
    /\ pin.state.hold >= pin.params.minHoldSteps
    /\ ~StopOrTPFires(pin.nav, EntryBefore, pin.params)

\* C24: at an evaluation in regime long or short with hold >= minHoldSteps
\* and no stop-loss or take-profit, the regime becomes neutral if and only
\* if |z| <= k_out; otherwise the regime is unchanged and hold is one more.
C24_ExitHysteresis ==
    PastHoldNoStop =>
        IF ZAbsLe(pout.z, pin.params.k_out)
        THEN pout.state.regime = "neutral"
        ELSE /\ pout.state.regime = RegimeBefore
             /\ pout.state.hold = pin.state.hold + 1

\* C24 witness: past the minimum hold, k_out < |z| < k_in: the regime is
\* kept and the hold is one more.
C24_Witness ==
    /\ PastHoldNoStop
    /\ ZAbsGt(pout.z, pin.params.k_out)
    /\ ~ZGe(pout.z, pin.params.k_in) /\ ~ZLeNeg(pout.z, pin.params.k_in)
    /\ pout.state.regime = RegimeBefore
    /\ pout.state.hold = pin.state.hold + 1

\* The z-score of the newest sample within the window: (s - m) / std with
\* the sample variance of the window, 0 when std = 0
WindowZ(window) ==
    LET n == Len(window)
        s == window[n]
        S == SeqSum(window)
        Q == SeqSumSq(window)
        dev == n * s - S
        varn == n * Q - S * S
    IN  IF varn > 0 /\ dev # 0
        THEN [sgn |-> IF dev > 0 THEN 1 ELSE -1,
              num |-> dev * dev * Max(1, n - 1),
              den |-> n * varn]
        ELSE ZeroZ

ZEq(a, b) == a.sgn = b.sgn /\ a.num * b.den = b.num * a.den

\* The spread samples recorded so far, the newest included
SamplesRecorded == Len(pout.spread_hist)
WarmUpLength == Max(pin.params.lookback \div 2, 8)

\* C25: z is 0 at every evaluation with fewer than max(lookback / 2, 8)
\* spread samples recorded, and at every evaluation with at least that many
\* it is the z-score of the newest sample within the trailing lookback
\* window, for every lookback (smaller than 8 included).
C25_WarmUp ==
    PairCalled =>
        IF SamplesRecorded < WarmUpLength
        THEN pout.z = ZeroZ
        ELSE ZEq(pout.z, WindowZ(LastN(pout.spread_hist, pin.params.lookback)))

\* The hedge ratio of the call and the base notionals before the skew
BetaOfCall ==
    IF pin.params.useBetaHedge
    THEN safe_beta(LastN(Get(pin.rets, "BTC", <<>>), pin.params.lookback),
                   LastN(Get(pin.rets, "ETH", <<>>), pin.params.lookback),
                   pin.params.betaMin, pin.params.betaMax)
    ELSE Ratio(1, 1)
BaseOfCall == BaseGross(pin.nav, pin.cfg, BetaOfCall)

\* The notional the skew moved to the long side (from it when negative)
MovedToLong == pout.targets["BTC"] - BaseOfCall.l

\* The skew branch is taken: a non-neutral regime and |z| > k_in > 0
SkewActive ==
    /\ pout.state.regime \in {"long", "short"}
    /\ pin.params.k_in.num > 0
    /\ ZAbsGt(pout.z, pin.params.k_in)

\* C26: in a non-neutral regime with |z| > k_in the notional moved between
\* the sides is NAV * (maxSkewBps / 10000) * scale / 2 in the unit of NAV,
\* so at most NAV * maxSkewBps / 20000 (one unit of rounding allowed), to
\* the long side in regime long and from it in regime short; in the neutral
\* regime or with |z| <= k_in nothing is moved.
C26_SkewSize ==
    PairCalled =>
        IF SkewActive
        THEN /\ Abs(MovedToLong) * 20000
                    <= Abs(pin.nav) * pin.params.maxSkewBps + 20000
             /\ pout.state.regime = "long" => MovedToLong >= 0
             /\ pout.state.regime = "short" => MovedToLong <= 0
        ELSE /\ MovedToLong = 0
             /\ -pout.targets["ETH"] = BaseOfCall.s

\* The skew of the call, and whether it floored a side at zero
SkewOfCall == Skew(pin.nav, pin.params, pout.z, pout.state.regime)
Floored ==
    /\ SkewOfCall # 0
    /\ \/ BaseOfCall.l + SkewOfCall \div 2 < 0
       \/ BaseOfCall.s - SkewOfCall \div 2 < 0

\* C27: the raw target of symbol A is >= 0, the raw target of symbol B is
\* <= 0, and whenever neither side is floored at zero their absolute
\* values add up to int(2 * NAV * leverage), for every beta, regime and skew.
C27_GrossKept ==
    PairCalled =>
        /\ pout.targets["BTC"] >= 0
        /\ pout.targets["ETH"] <= 0
        /\ ~Floored =>
            Abs(pout.targets["BTC"]) + Abs(pout.targets["ETH"])
                = PyInt(2 * pin.nav * pin.cfg.leverage.num, pin.cfg.leverage.den)

----------------------------------------------------------------------------
(* Properties of the net-delta and turnover stages (checked under          *)
(* SpecGuards)                                                             *)

\* The targets after the per-symbol clamp, their sum and their number
ClampedTargets == CapStage(gin.targets, gin.cfg)
IntendedSum == SumValues(ClampedTargets)
TargetCount == Max(Cardinality(DOMAIN gin.targets), 1)
NetDeltaLimit == gin.cfg.maxNetDeltaUSD * E6

\* C28: when |sum(targets)| exceeds maxNetDeltaUSD every target is reduced
\* by sum(targets) / count(targets) truncated toward zero, for positive and
\* for negative sums alike; otherwise the clamped targets are unchanged.
C28_CenteringTruncates ==
    Called =>
        IF Abs(IntendedSum) > NetDeltaLimit
        THEN \A s \in TargetSyms :
                gout.targets[s] = ClampedTargets[s] - PyInt(IntendedSum, TargetCount)
        ELSE gout.targets = ClampedTargets

\* C29: the returned targets sum, in absolute value, to at most
\* max(maxNetDeltaUSD in fixed-point units, count(targets) - 1): after
\* centering only a rounding residual smaller than the number of symbols
\* remains.
C29_NetDeltaBound ==
    Called =>
        Abs(SumValues(gout.targets))
            <= Max(NetDeltaLimit, Cardinality(TargetSyms) - 1)

\* C29 witness: the clamped targets summed to more than the limit, below
\* zero, and were centered to a residual of 1 over two symbols.
C29_Witness ==
    /\ Called
    /\ IntendedSum < -NetDeltaLimit
    /\ Cardinality(TargetSyms) = 2
    /\ SumValues(gout.targets) = 1
    /\ NetDeltaLimit = 0

\* C30: when the gross turnover sum |target_s - current_s| is at most
\* floor(NAV * turnoverCapBps / 10000), the final map equals the returned
\* target map on every target symbol.
C30_NoThrottleWithinCap ==
    Called /\ GrossTurnover <= AllowedMax
        => \A s \in TargetSyms : gout.final[s] = gout.targets[s]

\* C30 witness: a turnover below the allowed maximum that moves a held
\* position, adopted in full.
C30_Witness ==
    /\ Called
    /\ GrossTurnover > 0 /\ GrossTurnover < AllowedMax
    /\ \E s \in TargetSyms : gin.current[s] # 0 /\ RawDelta(s) # 0
    /\ \A s \in TargetSyms : gout.final[s] = gout.targets[s]

----------------------------------------------------------------------------
(* Properties of the skips and of the pair state within a run              *)

\* The post-guard gross turnover of the last step, in bps of its NAV, is
\* below the threshold bps
TurnoverBelow(bps) ==
    ev.nav > 0 /\ out.gross_turnover_e6 * 10000 < bps * ev.nav

\* The neutral-drift skip condition of the last step
NeutralDrift ==
    /\ IsPair
    /\ pair_state.regime = "neutral"
    /\ strat.params.neutralDriftThresholdBps > 0
    /\ TurnoverBelow(strat.params.neutralDriftThresholdBps)

\* C31: a row is noted skip_neutral_drift only when the pair regime after
\* the evaluation is neutral, neutralDriftThresholdBps > 0, NAV > 0 and the
\* post-guard gross turnover in bps of NAV is below the threshold; in
\* regime long or short no row is noted skip_neutral_drift; and when both
\* skip conditions hold the note is skip_neutral_drift, not skip_threshold.
C31_NeutralDriftSkip ==
    (Running /\ ev.due) =>
        /\ out.note = "skip_neutral_drift" => NeutralDrift
        /\ NeutralDrift => out.note = "skip_neutral_drift"

\* C31 witness: a step with a trade to make at which both skip conditions
\* hold, noted skip_neutral_drift.
C31_Witness ==
    /\ Running /\ ev.due /\ NeutralDrift
    /\ out.gross_turnover_e6 > 0
    /\ cfg.rebalanceThresholdBps > 0
    /\ TurnoverBelow(cfg.rebalanceThresholdBps)
    /\ out.note = "skip_neutral_drift"

\* C32: the pair state changes only at rebalance evaluations.  At a step
\* inside the cooldown regime, hold and entry NAV are unchanged; at a step
\* where the cooldown has elapsed the state machine takes exactly one
\* transition, on the z-score and NAV of that step, also when the step ends
\* as a skip (while a price of the pair is still missing the state is the
\* untouched initial one).
C32_StateChangesAtEvaluations ==
    [][(StepTaken /\ IsPair) =>
        IF ev'.due /\ ev'.evaluated
        THEN pair_state' = RegimeStep(pair_state, ev'.z, ev'.nav, strat.params)
        ELSE pair_state' = pair_state /\ (ev'.due => pair_state = NoState)
    ]_vars

\* C32 witness: a step that ended as a skip and whose evaluation moved the
\* regime from long or short to neutral.
C32_Witness ==
    /\ Running /\ IsPair /\ ev.due /\ ev.evaluated
    /\ out.note \in Skips
    /\ ev.before.regime \in {"long", "short"}
    /\ pair_state.regime = "neutral"

----------------------------------------------------------------------------
(* Functions of the one-tick engine called on bounded arguments            *)
(* (src/hl-vix-etf/core: strategy.py, vault.py, index_store.py, and the    *)
(* Mode B branch of engine.py)                                             *)
(*                                                                         *)
(* Here a float and a Decimal are values rounded to a fixed number of      *)
(* significant digits: every operation of the program returns the value    *)
(* nearest to the exact result, ties to even.  The program rounds to 53    *)
(* binary digits (float) and to 28 decimal digits (Decimal); the model     *)
(* rounds the same way to FloatBits and to DecimalDigits digits.           *)

FloatBits == 4
DecimalDigits == 3

\* Exact arithmetic on ratios with positive denominators
RNorm(x) ==
    LET g == GCD(Abs(x.num), x.den)
    IN  IF x.num >= 0 THEN Ratio(x.num \div g, x.den \div g)
        ELSE Ratio(-((-x.num) \div g), x.den \div g)
RAdd(x, y) == RNorm(Ratio(x.num * y.den + y.num * x.den, x.den * y.den))
RSub(x, y) == RNorm(Ratio(x.num * y.den - y.num * x.den, x.den * y.den))
RMul(x, y) == RNorm(Ratio(x.num * y.num, x.den * y.den))
\* x / y for y # 0
RDiv(x, y) ==
    IF y.num > 0 THEN RNorm(Ratio(x.num * y.den, x.den * y.num))
    ELSE RNorm(Ratio(-(x.num * y.den), x.den * (-y.num)))
RAbs(x) == Ratio(Abs(x.num), x.den)
RNeg(x) == Ratio(-x.num, x.den)
RZero == Ratio(0, 1)
ROne == Ratio(1, 1)
RSign(x) == IF x.num > 0 THEN 1 ELSE IF x.num < 0 THEN -1 ELSE 0

\* n / d rounded to the nearest integer, ties to even (n >= 0, d > 0)
RoundHalfEven(n, d) ==
    LET q == n \div d
        r == n % d
    IN  IF 2 * r > d \/ (2 * r = d /\ q % 2 = 1) THEN q + 1 ELSE q

\* The least k >= 1 with n < m * base ^ k, for n >= m > 0
ScaleDown(n, m, base) ==
    CHOOSE k \in 1..31 : n < m * base ^ k /\ n >= m * base ^ (k - 1)

\* The least k >= 1 with n * base ^ k >= m, for 0 < n < m
ScaleUp(n, m, base) ==
    CHOOSE k \in 1..31 : n * base ^ k >= m /\ n * base ^ (k - 1) < m

\* n / d rounded to `digits` significant digits in base `base`
RoundSig(n, d, base, digits) ==
    IF n = 0 THEN RZero
    ELSE IF n >= (base ^ digits) * d
    THEN LET k == ScaleDown(n, (base ^ digits) * d, base)
         IN  Ratio(RoundHalfEven(n, d * base ^ k) * base ^ k, 1)
    ELSE IF n < (base ^ (digits - 1)) * d
    THEN LET k == ScaleUp(n, (base ^ (digits - 1)) * d, base)
         IN  RNorm(Ratio(RoundHalfEven(n * base ^ k, d), base ^ k))
    ELSE Ratio(RoundHalfEven(n, d), 1)

RoundTo(x, base, digits) ==
    IF x.num >= 0 THEN RoundSig(x.num, x.den, base, digits)
    ELSE RNeg(RoundSig(-x.num, x.den, base, digits))

\* The float nearest to x, and the operations on floats
Fl(x) == RoundTo(x, 2, FloatBits)
FAdd(x, y) == Fl(RAdd(x, y))
FMul(x, y) == Fl(RMul(x, y))
FDiv(x, y) == Fl(RDiv(x, y))

\* The square root of n / d rounded to an integer of `digits` binary digits,
\* ties to even, for 4 ^ (digits - 1) <= n / d < 4 ^ digits
SqrtInt(n, d, digits) ==
    LET m == CHOOSE k \in (2 ^ (digits - 1))..(2 ^ digits - 1) :
                 k * k * d <= n /\ n < (k + 1) * (k + 1) * d
        half == (2 * m + 1) * (2 * m + 1) * d
    IN  IF 4 * n > half \/ (4 * n = half /\ m % 2 = 1) THEN m + 1 ELSE m

\* The square root of n / d rounded to `digits` significant binary digits
SqrtSig(n, d, digits) ==
    IF n = 0 THEN RZero
    ELSE IF n >= (4 ^ digits) * d
    THEN LET k == ScaleDown(n, (4 ^ digits) * d, 4)
         IN  Ratio(SqrtInt(n, d * 4 ^ k, digits) * 2 ^ k, 1)
    ELSE IF n < (4 ^ (digits - 1)) * d
    THEN LET k == ScaleUp(n, (4 ^ (digits - 1)) * d, 4)
         IN  RNorm(Ratio(SqrtInt(n * 4 ^ k, d, digits), 2 ^ k))
    ELSE Ratio(SqrtInt(n, d, digits), 1)

\* x ** 0.5 for a float x >= 0
FSqrt(x) == SqrtSig(x.num, x.den, FloatBits)

\* max(x, 1 / den) for the small positive constants of the program
FloorAt(x, den) ==
    IF x.num <= (x.den - 1) \div den THEN Ratio(1, den) ELSE x

\* risk_parity_weights: max(sig, 1e-9)
SigmaFloorDen == 1000000000
SigmaFloor(sig) == FloorAt(sig, SigmaFloorDen)

\* risk_parity_weights, one asset: inv = 1.0 / max(sig, 1e-9) if sig > 0
\* else 0.0, times 1.0 if sign >= 0 else -1.0
RawWeight(sig, sign) ==
    LET inv == IF sig.num > 0 THEN FDiv(ROne, SigmaFloor(sig)) ELSE RZero
    IN  IF sign >= 0 THEN inv ELSE RNeg(inv)

\* risk_parity_weights(sig_b, sig_e, sign_b, sign_e)
risk_parity_weights(sig_b, sig_e, sign_b, sign_e) ==
    LET wB_raw == RawWeight(sig_b, sign_b)
        wE_raw == RawWeight(sig_e, sign_e)
        s == FAdd(RAbs(wB_raw), RAbs(wE_raw))
    IN  IF s.num = 0
        THEN [wB |-> Ratio(1, 2), wE |-> Ratio(-1, 2)]
        ELSE [wB |-> FDiv(wB_raw, s), wE |-> FDiv(wE_raw, s)]

\* The standard deviations and the signs risk_parity_weights is called with
CoreSigmas == {RZero} \cup {RNorm(Ratio(m, 16)) : m \in {1, 3, 5, 8}}
CoreSigns == {-1, 1}

\* engine_tick, mode B: eps = 1e-6
ProxyFloorDen == 1000000

\* check_leverage: lev = (abs(target_b) + abs(target_e)) / nav
LeverageOf(tb, te, nav_) == FDiv(FAdd(RAbs(tb), RAbs(te)), nav_)

\* check_leverage, then check_asset_caps, on floats: the message of the
\* first that raises, "" when both return
FloatGuardReason(tb, te, nav_, cfg_) ==
    IF nav_.num <= 0 THEN "NAV must be positive"
    ELSE IF ~RLe(LeverageOf(tb, te, nav_), cfg_.L_max)
    THEN "leverage exceeds cap"
    ELSE IF ~RLe(RAbs(tb), FMul(cfg_.asset_cap, nav_))
    THEN "BTC target exceeds per-asset cap"
    ELSE IF ~RLe(RAbs(te), FMul(cfg_.asset_cap, nav_))
    THEN "ETH target exceeds per-asset cap"
    ELSE ""

\* engine_tick, mode B, after the weights: the volatility proxy, the
\* leverage and the targets, then the guards on the targets
ModeBLeverage(w, sig_b, sig_e, v_target_pct, nav_, cfg_) ==
    LET sq_b == FMul(FMul(w.wB, sig_b), FMul(w.wB, sig_b))
        sq_e == FMul(FMul(w.wE, sig_e), FMul(w.wE, sig_e))
        v_proxy_pct == FMul(Ratio(100, 1), FSqrt(FAdd(sq_b, sq_e)))
        L == RMin(cfg_.L_max,
                  FDiv(RMax(v_target_pct, RZero),
                       FloorAt(v_proxy_pct, ProxyFloorDen)))
        tb == FMul(FMul(nav_, L), w.wB)
        te == FMul(FMul(nav_, L), w.wE)
    IN  [wB |-> w.wB, wE |-> w.wE, L |-> L, tb |-> tb, te |-> te,
         reason |-> FloatGuardReason(tb, te, nav_, cfg_)]

\* engine_tick, mode B: the signs of cfg["weights"], risk_parity_weights
\* on the sigmas of the index, the leverage, the targets and the guards
ModeB(sig_b, sig_e, v_target_pct, nav_, cfg_) ==
    ModeBLeverage(
        risk_parity_weights(sig_b, sig_e,
            IF cfg_.weights["BTC"].num >= 0 THEN 1 ELSE -1,
            IF cfg_.weights["ETH"].num >= 0 THEN 1 ELSE -1),
        sig_b, sig_e, v_target_pct, nav_, cfg_)

\* The arguments of mode B: float(vault.nav(...)), the volatility target
\* (hl_vix14 or v_target_override) and the cfg
CoreNavs == {Fl(Ratio(n, 1)) : n \in {-5, 0, 7, 3000, 10000}}
CoreTargets == {RZero, Ratio(1, 16), ROne, Ratio(12, 1), Ratio(96, 1)}
CoreCfgs == {TickCfg, LeverageCfg, AssetCapCfg}

\* Vault.__init__: total_shares = Decimal("10000")
InitialShares == 10000

\* The Decimal nearest to x, and the operations on Decimals
Dec(x) == RoundTo(x, 10, DecimalDigits)
DAdd(x, y) == Dec(RAdd(x, y))
DSub(x, y) == Dec(RSub(x, y))
DMul(x, y) == Dec(RMul(x, y))
DDiv(x, y) == Dec(RDiv(x, y))

\* Vault(cash_usd), as far as deposit and withdraw use it.  The prices are
\* the same at every call, so Vault.nav accrues no PnL and returns the cash.
ShareVault(cash_usd) ==
    [cash |-> Ratio(cash_usd, 1), total_shares |-> Ratio(InitialShares, 1)]

\* Vault.price_per_share(pxs)
price_per_share(v) ==
    IF v.total_shares.num # 0 THEN DDiv(v.cash, v.total_shares) ELSE RZero

\* Vault.deposit(usd, pxs): the shares minted and the vault afterwards
deposit(v, usd) ==
    LET pps == IF v.total_shares.num > 0 THEN price_per_share(v) ELSE ROne
        shares == IF pps.num # 0 THEN DDiv(usd, pps) ELSE usd
    IN  [shares |-> shares,
         vault |-> [cash |-> DAdd(v.cash, usd),
                    total_shares |-> DAdd(v.total_shares, shares)]]

\* Vault.withdraw(shares, pxs): the amount paid and the vault afterwards
withdraw(v, shares) ==
    LET pps == price_per_share(v)
        usd == DMul(shares, pps)
    IN  [usd |-> usd,
         vault |-> [cash |-> DSub(v.cash, usd),
                    total_shares |-> DSub(v.total_shares, shares)]]

\* The cash a vault is constructed with and the amounts deposited
CoreCash == {0, 3000, 10000, 20000}
CoreDeposits == {Ratio(1000, 1), Ratio(10000, 1)}

\* What the file at the path of an IndexStore holds: nothing (the file is
\* missing), text that is not JSON, JSON that is not an object, or a JSON
\* object
NoFile == [kind |-> "missing", snapshot |-> EmptyDict]
StoreFiles ==
    {NoFile, [kind |-> "not_json", snapshot |-> EmptyDict],
     [kind |-> "json_list", snapshot |-> EmptyDict],
     [kind |-> "json_object", snapshot |-> EmptyDict],
     [kind |-> "json_object", snapshot |-> [last_px |-> Pair(2, 1)]]}

\* The accumulators of a calculator, as _save writes them and _load reads
\* them: ewma_var is represented by the returns and ewma_fund by the
\* funding rates folded into it
CalcOf(lp, ewma_var, ewma_fund) ==
    [last_px |-> lp,
     folded |-> [i \in 1..Len(ewma_var) |->
                    [r |-> ewma_var[i], fund |-> ewma_fund[i]]]]

\* IndexStore._save: json.dump of last_px, ewma_var and ewma_fund
StoreSave(calc) ==
    [kind |-> "json_object",
     snapshot |-> [last_px |-> calc.last_px,
                   ewma_var |-> [i \in 1..Len(calc.folded) |-> calc.folded[i].r],
                   ewma_fund |-> [i \in 1..Len(calc.folded) |-> calc.folded[i].fund]]]

\* IndexStore._load: open or json.load raises for a missing file and for
\* text that is not JSON, state.get raises for JSON that is not an object;
\* the exception is swallowed and the calculator stays as constructed
StoreLoad(file) ==
    IF file.kind = "json_object"
    THEN CalcOf(Get(file.snapshot, "last_px", EmptyDict),
                Get(file.snapshot, "ewma_var", <<>>),
                Get(file.snapshot, "ewma_fund", <<>>))
    ELSE NewIndex

\* IndexStore(path)
IndexStore(file) == [calc |-> StoreLoad(file), file |-> file]

\* IndexStore.update(pxs, funds_bp_day, wB, wE): calc.update, then _save;
\* an exception of calc.update leaves before _save
StoreUpdate(store, pxs, fund) ==
    LET ir == IndexUpdate(store.calc, pxs, fund)
    IN  [raised |-> ir.raised,
         store |-> [calc |-> ir.index,
                    file |-> IF ir.raised THEN store.file
                             ELSE StoreSave(ir.index)]]

\* The number of consecutive calls
CoreBound == 2

NoCall == [op |-> "none", args |-> <<>>, result |-> <<>>]

\* No call of these functions
CIdle ==
    /\ cpc = "idle"
    /\ ccall = NoCall
    /\ cvault = ShareVault(0)
    /\ cstore = IndexStore(NoFile)
    /\ ccount = 0

\* A vault and a store constructed; a run calls the functions, or the
\* methods of the vault, or those of the store
CInit ==
    /\ cpc = "ready"
    /\ ccall = NoCall
    /\ \E cash \in CoreCash, file \in StoreFiles :
        /\ cash = 0 \/ file = NoFile
        /\ cvault = ShareVault(cash)
        /\ cstore = IndexStore(file)
    /\ ccount = 0

VaultCalls == {"none", "deposit", "withdraw"}
StoreCalls == {"none", "IndexStore.update", "IndexStore"}

\* wB, wE = risk_parity_weights(sig_b, sig_e, sign_b, sign_e)
CallRiskParityWeights ==
    /\ cpc = "ready"
    /\ ccount < CoreBound
    /\ \E sig_b \in CoreSigmas, sig_e \in CoreSigmas,
          sign_b \in CoreSigns, sign_e \in CoreSigns :
        ccall' = [op |-> "risk_parity_weights",
                  args |-> [sig_b |-> sig_b, sig_e |-> sig_e,
                            sign_b |-> sign_b, sign_e |-> sign_e],
                  result |-> risk_parity_weights(sig_b, sig_e, sign_b, sign_e)]
    /\ ccount' = ccount + 1
    /\ cpc' = "done"
    /\ UNCHANGED <<cvault, cstore>>
    /\ UNCHANGED <<gvars, bvars, tvars, pvars>>

\* engine_tick, mode B, from index.get_sigmas() to the guards
CallModeB ==
    /\ cpc = "ready"
    /\ ccount < CoreBound
    /\ \E sig_b \in CoreSigmas, sig_e \in CoreSigmas, vt \in CoreTargets,
          nav_ \in CoreNavs, cfg_ \in CoreCfgs :
        ccall' = [op |-> "mode_b",
                  args |-> [sig_b |-> sig_b, sig_e |-> sig_e,
                            v_target_pct |-> vt, nav |-> nav_, cfg |-> cfg_],
                  result |-> ModeB(sig_b, sig_e, vt, nav_, cfg_)]
    /\ ccount' = ccount + 1
    /\ cpc' = "done"
    /\ UNCHANGED <<cvault, cstore>>
    /\ UNCHANGED <<gvars, bvars, tvars, pvars>>

\* shares = vault.deposit(usd, pxs)
CallDeposit ==
    /\ cpc = "ready"
    /\ ccount < CoreBound
    /\ ccall.op \in VaultCalls
    /\ \E usd \in CoreDeposits :
        LET r == deposit(cvault, usd)
        IN  /\ cvault' = r.vault
            /\ ccall' = [op |-> "deposit",
                         args |-> [usd |-> usd, vault |-> cvault],
                         result |-> [shares |-> r.shares]]
    /\ ccount' = ccount + 1
    /\ UNCHANGED <<cpc, cstore>>
    /\ UNCHANGED <<gvars, bvars, tvars, pvars>>

\* usd = vault.withdraw(shares, pxs) of the shares the deposit just before
\* minted
CallWithdraw ==
    /\ cpc = "ready"
    /\ ccount < CoreBound
    /\ ccall.op = "deposit"
    /\ LET r == withdraw(cvault, ccall.result.shares)
       IN  /\ cvault' = r.vault
           /\ ccall' = [op |-> "withdraw",
                        args |-> [shares |-> ccall.result.shares,
                                  vault |-> cvault,
                                  deposited |-> ccall.args.usd,
                                  before_deposit |-> ccall.args.vault],
                        result |-> [usd |-> r.usd]]
    /\ ccount' = ccount + 1
    /\ UNCHANGED <<cpc, cstore>>
    /\ UNCHANGED <<gvars, bvars, tvars, pvars>>

\* index.update(pxs, funds, wB, wE) on the store
CallStoreUpdate ==
    /\ cpc = "ready"
    /\ ccount < CoreBound
    /\ ccall.op \in StoreCalls
    /\ \E b \in TickPx, e \in TickPx :
        LET r == StoreUpdate(cstore, Pair(b, e), FundingBpDay)
        IN  /\ cstore' = r.store
            /\ ccall' = [op |-> "IndexStore.update",
                         args |-> [pxs |-> Pair(b, e)],
                         result |-> [raised |-> r.raised]]
    /\ ccount' = ccount + 1
    /\ UNCHANGED <<cpc, cvault>>
    /\ UNCHANGED <<gvars, bvars, tvars, pvars>>

\* A second IndexStore(path) on the file the store has written; the calls
\* go on with it
ReopenStore ==
    /\ cpc = "ready"
    /\ ccount < CoreBound
    /\ ccall.op \in StoreCalls
    /\ cstore' = IndexStore(cstore.file)
    /\ ccall' = [op |-> "IndexStore", args |-> [file |-> cstore.file],
                 result |-> [calc_before |-> cstore.calc]]
    /\ ccount' = ccount + 1
    /\ UNCHANGED <<cpc, cvault>>
    /\ UNCHANGED <<gvars, bvars, tvars, pvars>>

CNext ==
    \/ CallRiskParityWeights
    \/ CallModeB
    \/ CallDeposit
    \/ CallWithdraw
    \/ CallStoreUpdate
    \/ ReopenStore

----------------------------------------------------------------------------
(* Properties of the functions of the one-tick engine (SpecCore)           *)

\* C33: risk_parity_weights returns signed weights whose absolute values
\* sum to 1, and each weight has the sign the caller supplied for it or is
\* zero, for every pair of non-negative standard deviations and every pair
\* of signs, the case of both standard deviations zero included, where the
\* split is 0.5 / 0.5 in magnitude.
C33_SignedUnitWeights ==
    ccall.op = "risk_parity_weights" =>
        /\ RAdd(RAbs(ccall.result.wB), RAbs(ccall.result.wE)) = ROne
        /\ RSign(ccall.result.wB) \in {0, ccall.args.sign_b}
        /\ RSign(ccall.result.wE) \in {0, ccall.args.sign_e}
        /\ (ccall.args.sig_b.num = 0 /\ ccall.args.sig_e.num = 0) =>
                /\ RAbs(ccall.result.wB) = Ratio(1, 2)
                /\ RAbs(ccall.result.wE) = Ratio(1, 2)

----------------------------------------------------------------------------
(* Properties of the trading loop of a tick (checked under SpecTick)       *)

\* engine_tick, trading loop: what the tick set out to trade in an asset
DeltaOf(row, a) == row.target[a] - row.pos_before[a]
ChunksOf(row, a) == IF Abs(DeltaOf(row, a)) <= ChunkLimit THEN 1 ELSE 3
PartOf(row, a) == PyInt(DeltaOf(row, a), ChunksOf(row, a))
\* The asset is traded: its delta is not below min_trade
Traded(row, a) ==
    ~(row.nav_before > 0
        /\ Abs(DeltaOf(row, a)) < MinTradeCeil(row.nav_before, tcfg.min_trade_frac))
\* The adapter returns an estimate for the first chunk of the asset and it
\* exceeds slippage_cap_bps
SlipOver(row, input, a) ==
    /\ Traded(row, a)
    /\ ~(input.fault.call = "estimate" /\ input.fault.asset = a
            /\ input.fault.chunk = 1)
    /\ estimate_slippage_bps(PartOf(row, a)) > tcfg.slippage_cap_bps
\* No call of the adapter for the asset raises
NoFaultOn(input, a) == input.fault.call = "none" \/ input.fault.asset # a
\* err_reason names the asset with the slippage message
NamesSlippage(reason, a) ==
    LET own == a \o ": slippage exceeds cap"
    IN  \/ reason = own
        \/ \E other \in {"BTC: slippage exceeds cap", "BTC: estimate failed",
                         "BTC: order failed", "ETH: slippage exceeds cap",
                         "ETH: estimate failed", "ETH: order failed"} :
                reason = own \o "; " \o other \/ reason = other \o "; " \o own
OtherAsset(a) == IF a = "BTC" THEN "ETH" ELSE "BTC"

\* C34: per-order slippage rejection.  When the adapter's slippage estimate
\* for an order chunk exceeds slippage_cap_bps, place_order_usd is not
\* called for that chunk nor for any later chunk of the same asset in this
\* tick, the row has status ERROR naming the asset, and the other asset's
\* orders are still attempted: the other asset, if it is traded, within
\* the cap and its calls do not fail, has every chunk placed, and the
\* positions changed by its chunks stay changed.
C34_SlippageRejectsOneAsset ==
    [][(TickTaken /\ trow'.reached = "trade") =>
        \A a \in Assets : SlipOver(trow', tin', a) =>
            /\ trow'.orders[a] = 0 /\ trow'.order_usd[a] = 0
            /\ apos'[a] = apos[a]
            /\ vault'.positions_usd[a] = vault.positions_usd[a]
            /\ trow'.status = "ERROR"
            /\ NamesSlippage(trow'.err_reason, a)
            /\ LET b == OtherAsset(a)
               IN  (Traded(trow', b) /\ ~SlipOver(trow', tin', b)
                        /\ NoFaultOn(tin', b)) =>
                    /\ trow'.orders[b] = ChunksOf(trow', b)
                    /\ ~tcfg.dry_run =>
                        /\ apos'[b] = apos[b] + ChunksOf(trow', b) * PartOf(trow', b)
                        /\ vault'.positions_usd[b] = apos'[b]
                        /\ trow'.pos_after[b] = apos'[b]
    ]_vars

\* C34 witness: a tick of a vault holding an ETH position in which the BTC
\* order is rejected for slippage after nothing was placed for BTC, and the
\* ETH order, second in the loop, is placed and moves the ETH position.
C34_Witness ==
    /\ tpc = "ready" /\ tslot >= 2 /\ trow.reached = "trade"
    /\ SlipOver(trow, tin, "BTC")
    /\ trow.status = "ERROR"
    /\ trow.err_reason = "BTC: slippage exceeds cap"
    /\ trow.orders = Pair(0, 1)
    /\ trow.pos_before["ETH"] # 0
    /\ trow.pos_after["ETH"] # trow.pos_before["ETH"]
    /\ trow.pos_after["BTC"] = trow.pos_before["BTC"]

\* The next update returns the same from a store opened on the file as
\* from the store itself
SameNextTick(store) ==
    \A b \in TickPx, e \in TickPx :
        StoreUpdate(IndexStore(store.file), Pair(b, e), FundingBpDay).store.calc
            = StoreUpdate(store, Pair(b, e), FundingBpDay).store.calc

\* C35: index persistence.  After every IndexStore.update the saved
\* snapshot equals the in-memory accumulators (last price, EWMA variance,
\* EWMA funding per asset), so an IndexStore constructed afterwards from
\* the same path holds the same state and returns the same for the same
\* next tick as the original; a missing or unreadable snapshot yields the
\* fresh zero state.
C35_SnapshotFollowsUpdate ==
    /\ ccall.op = "IndexStore.update" =>
        /\ cstore.file.kind = "json_object"
        /\ StoreLoad(cstore.file) = cstore.calc
        /\ SameNextTick(cstore)
    /\ (ccall.op = "IndexStore" /\ ccall.args.file.kind # "json_object") =>
        cstore.calc = NewIndex

\* C36: in Mode B the leverage used satisfies 0 <= L <= L_max on every
\* tick, the implied leverage of the targets equals L because the
\* risk-parity weights have absolute sum 1, and so the leverage guard never
\* rejects a Mode B tick whose NAV is positive.
C36_ModeBWithinLeverage ==
    (ccall.op = "mode_b" /\ ccall.args.nav.num > 0) =>
        /\ RLe(RZero, ccall.result.L)
        /\ RLe(ccall.result.L, ccall.args.cfg.L_max)
        /\ LeverageOf(ccall.result.tb, ccall.result.te, ccall.args.nav)
                = ccall.result.L
        /\ ccall.result.reason # "leverage exceeds cap"

\* Every order chunk of the asset was placed and filled
AllChunksFilled(row, a) == Traded(row, a) /\ row.orders[a] = ChunksOf(row, a)

\* C37: after a non-dry-run tick in which every order chunk of an asset
\* fills, the vault's position for that asset equals the tick's target for
\* that asset, on every tick of a sequence, for the mock adapter starting
\* from a fresh vault and for the backtest adapter.
C37_FilledPositionIsTarget ==
    [][(TickTaken /\ trow'.reached = "trade" /\ ~tcfg.dry_run) =>
        \A a \in Assets : AllChunksFilled(trow', a) =>
            vault'.positions_usd[a] = trow'.target[a]
    ]_vars

\* C38: dry run places nothing.  With dry_run = true, engine_tick never
\* calls adapter.place_order_usd and the vault's and the adapter's
\* positions after the tick equal those before it, for every target and
\* delta, while the row still reports the planned order amounts and counts:
\* for an asset that is traded, within the slippage cap and whose estimates
\* do not fail, the count is the number of chunks and the amount the sum of
\* the chunks.
C38_DryRunPlacesNothing ==
    [][(TickTaken /\ tcfg.dry_run) =>
        /\ apos' = apos
        /\ vault'.positions_usd = vault.positions_usd
        /\ trow'.reached = "trade" =>
            /\ trow'.pos_after = trow'.pos_before
            /\ \A a \in Assets :
                (Traded(trow', a) /\ ~SlipOver(trow', tin', a)
                    /\ ~(tin'.fault.call = "estimate" /\ tin'.fault.asset = a)) =>
                    /\ trow'.orders[a] = ChunksOf(trow', a)
                    /\ trow'.order_usd[a]
                            = ChunksOf(trow', a) * Abs(PartOf(trow', a))
    ]_vars

\* C38 witness: a dry-run tick that plans an order for each asset and
\* reports them, with the positions of the vault and of the adapter still
\* off the targets.
C38_Witness ==
    /\ tpc = "ready" /\ tcfg.dry_run /\ trow.reached = "trade"
    /\ trow.status = "OK"
    /\ trow.orders = Pair(1, 1)
    /\ trow.order_usd["BTC"] > 0 /\ trow.order_usd["ETH"] > 0
    /\ vault.positions_usd # trow.target
    /\ trow.pos_after = trow.pos_before
    /\ apos \in {BtPositions, MockPositions}

----------------------------------------------------------------------------
(* Properties of the symbols a strategy does not name (SpecBacktest)       *)

\* The symbols the strategy names: those of its buckets, and for a pair
\* strategy the two symbols the pair is evaluated on
StrategySyms ==
    NamedSyms(strat)
        \cup IF IsPair
             THEN LET syms == IF strat.symbols # <<>> THEN strat.symbols
                              ELSE Sorted(symbols)
                  IN  {syms[i] : i \in 1..Min(Len(syms), 2)}
             ELSE {}
\* The row and the funding map of a step without the symbol s
Without(d, s) == [k \in DOMAIN d \ {s} |-> d[k]]

\* C39: positions of symbols outside the target map are never touched.  A
\* rebalance changes only the positions of symbols named in the target
\* map, so a symbol that appears in the price data but not in the strategy
\* keeps position 0 through every step and contributes no PnL, funding or
\* turnover: the price PnL and the funding of the step are what they are
\* without the symbol's price and funding rate, and the symbol is not among
\* the positions the turnover is measured on.
C39_UnnamedSymbolsUntouched ==
    [][StepTaken =>
        /\ \A s \in Symbols \ DOMAIN ev'.targets : pos'[s] = pos[s]
        /\ \A s \in symbols \ StrategySyms :
            /\ pos[s] = 0 /\ pos'[s] = 0
            /\ s \notin DOMAIN ev'.targets /\ s \notin DOMAIN ev'.final
            /\ PricePnl(ev'.row) = PricePnl(Without(ev'.row, s))
            /\ out'.funding_e6 = IF DOMAIN Without(ev'.funding, s) # {}
                                 THEN FundingPnl(Without(ev'.funding, s))
                                 ELSE 0
    ]_vars

\* C39 witness: a later step of a run whose strategy does not name ETH, at
\* which the price of ETH has moved, ETH carries a funding rate, and the
\* rebalance trades BTC.
C39_Witness ==
    /\ Running /\ steps >= 2
    /\ "ETH" \in symbols \ StrategySyms
    /\ "ETH" \in DOMAIN ev.row /\ "ETH" \in DOMAIN ev.funding
    /\ "ETH" \in DOMAIN last_px
    /\ ret_hist["ETH"] # <<>> /\ ret_hist["ETH"][Len(ret_hist["ETH"])] # 0
    /\ out.note = "rebalance" /\ out.gross_turnover_e6 > 0
    /\ pos["BTC"] # ev.pos0["BTC"]
    /\ pos["ETH"] = 0

\* C40: vault share accounting.  At unchanged prices, deposit and withdraw
\* leave the price per share unchanged, and a deposit of u USD followed by
\* a withdrawal of exactly the shares it minted pays out u and restores
\* cash and total shares to their values before the deposit.
C40_ShareAccounting ==
    /\ ccall.op \in {"deposit", "withdraw"} =>
        price_per_share(cvault) = price_per_share(ccall.args.vault)
    /\ ccall.op = "withdraw" =>
        /\ ccall.result.usd = ccall.args.deposited
        /\ cvault = ccall.args.before_deposit

----------------------------------------------------------------------------
(* Specifications                                                          *)

\* The guard pipeline called on bounded arguments
InitGuards == GInit /\ BIdle /\ TIdle /\ PIdle /\ CIdle
SpecGuards == InitGuards /\ [][GNext]_vars

\* load_strategy followed by backtest
InitBacktest == BInit /\ GInit /\ TIdle /\ PIdle /\ CIdle
SpecBacktest == InitBacktest /\ [][BNext]_vars

\* Consecutive ticks of the one-tick engine
InitTick == TInit /\ GInit /\ BIdle /\ PIdle /\ CIdle
SpecTick == InitTick /\ [][TNext]_vars

\* compute_targets_pair_breakout called on bounded arguments
InitPair == PInit /\ GInit /\ BIdle /\ TIdle /\ CIdle
SpecPair == InitPair /\ [][PNext]_vars

\* The functions of the one-tick engine called on bounded arguments
InitCore == CInit /\ GInit /\ BIdle /\ TIdle /\ PIdle
SpecCore == InitCore /\ [][CNext]_vars

====
